---- MODULE Spec2Model ----
(***************************************************************************)
(* A model of the reactivity core (effect engine, dependency graph, set /  *)
(* get / delete traps of the mutable wrapper) and of the microtask         *)
(* scheduler of the repository.                                            *)
(*                                                                         *)
(* The program is single threaded and re-entrant: user code (the body of   *)
(* an effect, the body of a job) calls back into the library.  The model   *)
(* keeps an explicit call stack; user code is a nondeterministic choice    *)
(* among the library calls it can make at the point where it is running.   *)
(***************************************************************************)
EXTENDS Integers, Sequences, FiniteSets, TLC

(***************************************************************************)
(* Bounds of the model.                                                    *)
(***************************************************************************)
MaxTrackId == 3        \* runs + stops per effect
MaxDepth == 2          \* frames on the call stack
MaxTrackStack == 1     \* entries of trackStack
MaxPause == 1          \* explicit pauseScheduling() nesting by user code
MaxBuffer == 2         \* entries of queueEffectSchedulers
DepsPerKey == 2        \* Dep objects of one key alive at the same time
MaxQueue == 4          \* jobs in the scheduler's queue
MaxPost == 1           \* entries of pendingPostFlushCbs
MaxRuns == 2           \* calls of one job in one flush
MaxLen == 2            \* length of the array target
MaxPending == 2        \* entries of pendingPostFlushCbs with nested flushes
MaxActive == 3         \* entries of activePostFlushCbs

(***************************************************************************)
(* The universe: two effects created by effect(fn, {lazy: true}), one      *)
(* plain-object target with two properties wrapped by the mutable handler. *)
(* Of a property value the program only asks whether a written value       *)
(* differs from the stored one (hasChanged), so the target records which   *)
(* keys it owns and a write says whether its value is the stored one.      *)
(***************************************************************************)
Effects == {"e1", "e2"}
Keys == {"a", "b"}
ITERATE_KEY == "iterate"
\* a second target, an array, with the keys that are read of it
ArrKeys == {"1", "length"}
DepKeys == Keys \cup {ITERATE_KEY} \cup ArrKeys
Present == "value"
Undefined == "undefined"

NoDep == 0
KeyIndex(k) ==
  IF k = "a" THEN 0 ELSE IF k = "b" THEN 1 ELSE IF k = ITERATE_KEY THEN 2
  ELSE IF k = "1" THEN 3 ELSE 4
DepIds == 1..(5 * DepsPerKey)
\* the key that the cleanup closure of Dep object d deletes from depsMap
depKey(d) == CHOOSE k \in DepKeys : KeyIndex(k) = (d - 1) \div DepsPerKey

NotDirty == 0
MaybeDirty == 1
Dirty == 2

VARIABLES
  \* ReactiveEffect fields
  active, deps, trackId, depsLength, runnings, shouldSchedule, dirtyLevel,
  allowRecurse,
  \* module state of effect.ts
  activeEffect, shouldTrack, trackStack, pauseScheduleStack,
  queueEffectSchedulers,
  \* targetMap of reactiveEffect.ts for the one target, and the Dep objects
  depsMap, depSubs,
  \* the raw target object
  obj,
  \* the call stack
  stack

rvars == <<active, deps, trackId, depsLength, runnings, shouldSchedule,
           dirtyLevel, allowRecurse, activeEffect, shouldTrack, trackStack,
           pauseScheduleStack, queueEffectSchedulers, depsMap, depSubs, obj, stack>>

(***************************************************************************)
(* History of a behaviour, kept beside the program's state:                *)
(*   epochReads[e]  keys that e has tracked since its latest run started   *)
(*                  (since preCleanupEffect gave it its current _trackId)  *)
(*   everRead[e]    keys that e has tracked in any run                     *)
(*   runsSince[e]   -1, or the number of times the scheduler of e has       *)
(*                  entered fn since a key of epochReads[e] changed while  *)
(*                  e was active and not running; back to -1 when the      *)
(*                  outermost trigger / resetScheduling has returned, and  *)
(*                  when user code itself calls the runner of e            *)
(*   ranInBatch[e]  fn of e was entered since pauseScheduleStack left 0    *)
(***************************************************************************)
VARIABLES epochReads, everRead, runsSince, ranInBatch

gvars == <<epochReads, everRead, runsSince, ranInBatch>>

(***************************************************************************)
(* The scheduler (scheduler.ts): its module state, the call stack of the   *)
(* job bodies it has called, and beside them                               *)
(*   seen             the CountMap of the flushJobs call in progress       *)
(*                    (0: the job is not in the map)                       *)
(*   appErrors        errors reported with code APP_ERROR_HANDLER since    *)
(*                    the latest flush began                               *)
(*   invoked[j]       times the main loop of flushJobs has called j in the *)
(*                    flush in progress                                    *)
(*   queuedInFlush    queueJob has put a job in the queue since the flush  *)
(*                    in progress began                                    *)
(***************************************************************************)
VARIABLES queue, flushIndex, isFlushing, isFlushPending, pendingPostFlushCbs,
          activePostFlushCbs, postFlushIndex, currentFlushPromise, seen,
          appErrors, jobStack, invoked, queuedInFlush

svars == <<queue, flushIndex, isFlushing, isFlushPending, pendingPostFlushCbs,
           activePostFlushCbs, postFlushIndex, currentFlushPromise, seen,
           appErrors, jobStack, invoked, queuedInFlush>>

(***************************************************************************)
(*   cancelled        jobs that invalidateJob was called on while they sat *)
(*                    in the queue and had not been started, and that      *)
(*                    queueJob has not been called on since; emptied when  *)
(*                    the flush has returned                               *)
(*   registered       post-flush callbacks that queuePostFlushCb has       *)
(*                    pushed while the main loop of flushJobs was running  *)
(*                    a job, until they have been called and have returned *)
(***************************************************************************)
VARIABLES cancelled, registered

cvars == <<cancelled, registered>>

(***************************************************************************)
(* Promises and the microtask queue of the host:                           *)
(*   microtasks   the microtask queue: "flush" is flushJobs, put there by  *)
(*                resolvedPromise.then(flushJobs); a tick is the fn of a   *)
(*                nextTick(fn) whose promise is fulfilled                  *)
(*   reactions    the fns that nextTick has put, with then, on the         *)
(*                promise currentFlushPromise, which is pending until      *)
(*                flushJobs returns                                        *)
(*   inTask       the script of the current task is running                *)
(* and beside them                                                         *)
(*   ticks[t]     "none", or when nextTick(t) was called: "early", no      *)
(*                flush pending or in progress; "late", a flush pending or *)
(*                in progress; "done", as late, and since then flushJobs   *)
(*                has returned                                             *)
(***************************************************************************)
VARIABLES microtasks, reactions, inTask, ticks

tvars == <<microtasks, reactions, inTask, ticks>>

(***************************************************************************)
(* Failing jobs:                                                           *)
(*   schedErrors  the calls of the error handler with ErrorCodes.SCHEDULER *)
(*                in the current flush                                     *)
(*   owed         the jobs that waited in the queue behind a job of the    *)
(*                current flush when it failed, and that the main loop has *)
(*                not called since (an invalidated job is owed no more)    *)
(***************************************************************************)
VARIABLES schedErrors, owed

fvars == <<schedErrors, owed>>

(***************************************************************************)
(* Failing effects:                                                        *)
(*   lastExit   how the latest run() that gave control back to the code    *)
(*              now running has exited: "return", "throw" (its fn threw    *)
(*              and the caller caught it), or "none" since fn of the       *)
(*              running effect was entered                                 *)
(***************************************************************************)
VARIABLES lastExit

evars == <<lastExit>>

(***************************************************************************)
(* The array target: arrLength is the length of the raw array.  Beside it, *)
(* of the latest assignment to the length by the script: lastSet.same, the *)
(* value assigned was the length the array had; lastSet.missed, the        *)
(* effects that had read "length" or an index >= the value in their latest *)
(* run and whose scheduler was not called, and the effects that had not    *)
(* and whose scheduler was called.                                         *)
(***************************************************************************)
VARIABLES arrLength, lastSet

avars == <<arrLength, lastSet>>

(***************************************************************************)
(* Nested flushPostFlushCbs:                                               *)
(*   batches   <<>> while activePostFlushCbs is null; else the length that *)
(*             the array had when flushPostFlushCbs made it, followed by   *)
(*             its length after each flushPostFlushCbs call that has       *)
(*             pushed callbacks onto it                                    *)
(***************************************************************************)
VARIABLES batches

nvars == <<batches>>

(***************************************************************************)
(* Effects that allow recursion:                                           *)
(*   staleSched[e]   a run of e has begun while the scheduler of e was in  *)
(*                   the buffer, and the scheduler has been there since    *)
(***************************************************************************)
VARIABLES staleSched

uvars == <<staleSched>>

(***************************************************************************)
(* flushPreFlushCbs called by user code:                                   *)
(*   preI       the variable i of the call in progress, while a pre job    *)
(*              that its loop has called is running                        *)
(*   preSeen    the CountMap of the call in progress                       *)
(* and beside them                                                         *)
(*   bypassed   the jobs that queueJob has put in the queue, since the     *)
(*              call began, in front of the index that the loop looks at   *)
(*              next                                                       *)
(***************************************************************************)
VARIABLES preI, preSeen, bypassed

pvars == <<preI, preSeen, bypassed>>

(***************************************************************************)
(* trigger() on targets of every kind:                                     *)
(*   tdm    the target that the script works on: its kind and the keys of  *)
(*          its depsMap                                                    *)
(*   tout   the latest trigger(target, type, key, newValue) call: its      *)
(*          arguments, the keys of depsMap when it was made, and the keys  *)
(*          whose deps it has passed to triggerEffects                     *)
(***************************************************************************)
VARIABLES tdm, tout

kvars == <<tdm, tout>>

(***************************************************************************)
(* The set trap:                                                           *)
(*   wrote  the latest write through the wrapper: n alternates with every  *)
(*          write, key is the key written, same tells that the value       *)
(*          written is the value the key held                              *)
(***************************************************************************)
VARIABLES wrote

wvars == <<wrote>>

(***************************************************************************)
(* The work the scheduler has accepted:                                    *)
(*   waiting  jobs: the jobs that queueJob has put in the queue and that   *)
(*            have since been neither called by the main loop nor removed  *)
(*            by invalidateJob; cbs: the callbacks that queuePostFlushCb   *)
(*            has pushed and that have not been called since               *)
(***************************************************************************)
VARIABLES waiting

lvars == <<waiting>>

zvars == <<kvars, wvars, lvars>>

yvars == <<nvars, uvars, pvars, zvars>>

xvars == <<tvars, fvars, evars, avars, yvars>>

vars == <<rvars, gvars, svars, cvars, xvars>>

(***************************************************************************)
(* Dep: a Map effect -> trackId, iterated in insertion order.              *)
(***************************************************************************)
DepHas(s, e) == \E i \in 1..Len(s) : s[i].eff = e

DepGet(s, e) == s[CHOOSE i \in 1..Len(s) : s[i].eff = e].id

DepSet(s, e, id) ==
  IF DepHas(s, e)
  THEN [i \in 1..Len(s) |-> IF s[i].eff = e THEN [eff |-> e, id |-> id] ELSE s[i]]
  ELSE Append(s, [eff |-> e, id |-> id])

DepDelete(s, e) == SelectSeq(s, LAMBDA x : x.eff # e)

DepKeysOf(s) == [i \in 1..Len(s) |-> s[i].eff]

\* dep.get(effect) === effect._trackId
Live(s, e, tid) == DepHas(s, e) /\ DepGet(s, e) = tid

(***************************************************************************)
(* The heap of Dep objects: h.subs, h.map (depsMap); h.calls counts, for   *)
(* each Dep, the calls of its cleanup callback made by the operation that  *)
(* is under way.                                                           *)
(***************************************************************************)
Heap == [subs |-> depSubs, map |-> depsMap, calls |-> [d \in DepIds |-> 0]]

\* a cleanupDepEffect that leaves the stale entry in the dep
cleanupDepEffectKeepsEntry(h, d, e, tid) == h

\* a cleanupDepEffect that calls dep.cleanup() after every delete
cleanupDepEffectAlwaysCleans(h, d, e, tid) ==
  IF DepHas(h.subs[d], e) /\ DepGet(h.subs[d], e) # tid
  THEN [h EXCEPT !.subs[d] = DepDelete(@, e), !.map[depKey(d)] = NoDep,
                 !.calls[d] = @ + 1]
  ELSE h

\* dep.cleanup() is () => depsMap.delete(key)
cleanupDepEffect(h, d, e, tid) ==
  IF DepHas(h.subs[d], e) /\ DepGet(h.subs[d], e) # tid
  THEN LET s2 == DepDelete(h.subs[d], e) IN
       IF Len(s2) = 0
       THEN [h EXCEPT !.subs[d] = s2, !.map[depKey(d)] = NoDep,
                      !.calls[d] = @ + 1]
       ELSE [h EXCEPT !.subs[d] = s2]
  ELSE h

RECURSIVE PostCleanupLoop(_, _, _, _, _)
PostCleanupLoop(h, ds, i, e, tid) ==
  IF i > Len(ds) THEN h
  ELSE PostCleanupLoop(cleanupDepEffect(h, ds[i], e, tid), ds, i + 1, e, tid)

\* postCleanupEffect: the heap after; the deps array is truncated by the caller
postCleanupEffect(h, ds, len, e, tid) ==
  IF Len(ds) > len THEN PostCleanupLoop(h, ds, len + 1, e, tid) ELSE h

TruncDeps(ds, len) == IF Len(ds) > len THEN SubSeq(ds, 1, len) ELSE ds

(***************************************************************************)
(* Allocation of a Dep object (createDep): any object that nothing refers  *)
(* to; the model takes the least such identity.                            *)
(***************************************************************************)
InUse(h) ==
  {h.map[k] : k \in DepKeys} \cup
  UNION {{deps[e][i] : i \in 1..Len(deps[e])} : e \in Effects}

FreeIds(h, key) == {d \in DepIds : depKey(d) = key} \ InUse(h)

NewDepId(h, key) == CHOOSE d \in FreeIds(h, key) : \A d2 \in FreeIds(h, key) : d <= d2


(***************************************************************************)
(* track(target, type, key) and trackEffect(effect, dep): the heap, the    *)
(* deps array and _depsLength of effect e after e tracks `key`.            *)
(***************************************************************************)
DepFor(h, key) == IF h.map[key] = NoDep THEN NewDepId(h, key) ELSE h.map[key]

WithDep(h, key) ==
  IF h.map[key] = NoDep
  THEN LET d == NewDepId(h, key) IN
       [h EXCEPT !.map[key] = d, !.subs[d] = <<>>]
  ELSE h

\* a trackEffect without the test dep.get(effect) !== effect._trackId
trackEffectNoTest(h, e, d) ==
  LET tid == trackId[e]
      len == depsLength[e]
      ds == deps[e]
      h2 == [h EXCEPT !.subs[d] = DepSet(@, e, tid)]
      oldDep == IF len < Len(ds) THEN ds[len + 1] ELSE NoDep
  IN IF oldDep # d
     THEN [h |-> IF oldDep # NoDep THEN cleanupDepEffect(h2, oldDep, e, tid) ELSE h2,
           ds |-> IF len < Len(ds) THEN [ds EXCEPT ![len + 1] = d] ELSE Append(ds, d),
           len |-> len + 1]
     ELSE [h |-> h2, ds |-> ds, len |-> len + 1]

trackEffect(h, e, d) ==
  LET tid == trackId[e]
      len == depsLength[e]
      ds == deps[e]
  IN IF Live(h.subs[d], e, tid)
     THEN [h |-> h, ds |-> ds, len |-> len]
     ELSE LET h2 == [h EXCEPT !.subs[d] = DepSet(@, e, tid)]
              oldDep == IF len < Len(ds) THEN ds[len + 1] ELSE NoDep
          IN IF oldDep # d
             THEN [h |-> IF oldDep # NoDep
                         THEN cleanupDepEffect(h2, oldDep, e, tid)
                         ELSE h2,
                   ds |-> IF len < Len(ds)
                          THEN [ds EXCEPT ![len + 1] = d]
                          ELSE Append(ds, d),
                   len |-> len + 1]
             ELSE [h |-> h2, ds |-> ds, len |-> len + 1]

\* whether track() does anything: shouldTrack && activeEffect
Tracking == shouldTrack /\ activeEffect # Undefined

track(key) ==
  IF Tracking
  THEN LET r == trackEffect(WithDep(Heap, key), activeEffect, DepFor(Heap, key)) IN
       /\ depSubs' = r.h.subs
       /\ depsMap' = r.h.map
       /\ deps' = [deps EXCEPT ![activeEffect] = r.ds]
       /\ depsLength' = [depsLength EXCEPT ![activeEffect] = r.len]
  ELSE UNCHANGED <<depSubs, depsMap, deps, depsLength>>

\* a Dep object is available for the key (the pool of the model is finite)
CanTrack(key) ==
  IF Tracking /\ depsMap[key] = NoDep THEN FreeIds(Heap, key) # {} ELSE TRUE

(***************************************************************************)
(* triggerEffects(dep, dirtyLevel) and scheduleEffects(dep), on the record *)
(* st = [dl: _dirtyLevel, ss: _shouldSchedule, q: queueEffectSchedulers].  *)
(* effect.trigger is NOOP for an effect made by effect().  Both calls run  *)
(* with pauseScheduleStack >= 1, so the resetScheduling() that ends        *)
(* triggerEffects drains nothing.                                          *)
(***************************************************************************)
RECURSIVE TriggerEffectsLoop(_, _, _, _)
TriggerEffectsLoop(st, s, i, level) ==
  IF i > Len(s) THEN st
  ELSE LET e == s[i].eff
           hit == st.dl[e] < level /\ s[i].id = trackId[e]
           st1 == IF hit
                  THEN [st EXCEPT !.dl[e] = level,
                                  !.ss[e] = IF st.dl[e] = NotDirty THEN TRUE ELSE @]
                  ELSE st
       IN TriggerEffectsLoop(st1, s, i + 1, level)

\* a push that leaves _shouldSchedule set
ScheduleOneKeepsFlag(st, e) == [st EXCEPT !.q = Append(@, e)]

ScheduleOne(st, e) == [st EXCEPT !.ss[e] = FALSE, !.q = Append(@, e)]

\* a scheduleEffects without the test (!effect._runnings || effect.allowRecurse)
RECURSIVE scheduleEffectsRunning(_, _, _)
scheduleEffectsRunning(st, s, i) ==
  IF i > Len(s) THEN st
  ELSE LET e == s[i].eff
           hit == st.ss[e] /\ s[i].id = trackId[e]
       IN scheduleEffectsRunning(IF hit THEN ScheduleOne(st, e) ELSE st, s, i + 1)

RECURSIVE scheduleEffects(_, _, _)
scheduleEffects(st, s, i) ==
  IF i > Len(s) THEN st
  ELSE LET e == s[i].eff
           hit == /\ st.ss[e]
                  /\ (IF runnings[e] = 0 THEN TRUE ELSE allowRecurse[e])
                  /\ s[i].id = trackId[e]
       IN scheduleEffects(IF hit THEN ScheduleOne(st, e) ELSE st, s, i + 1)

triggerEffects(st, s, level) ==
  scheduleEffects(TriggerEffectsLoop(st, s, 1, level), s, 1)

Top == stack[Len(stack)]
Pop(s) == SubSeq(s, 1, Len(s) - 1)

(***************************************************************************)
(* A frame of the call stack: the body fn of effect e is running, called   *)
(* by run().  act: the effect was active when run() was called (so the     *)
(* try/finally of run() is around fn); lst, le: lastShouldTrack and        *)
(* lastEffect saved by run(); ret: who called run(): user code ("user") or *)
(* the effect's scheduler, called by the loop of resetScheduling ("drain").*)
(***************************************************************************)
Frame(e, act, lst, le, ret) == [e |-> e, act |-> act, lst |-> lst, le |-> le, ret |-> ret]

\* a dirty getter that never reports dirty
dirtyAfterGetNever(level) == NotDirty

\* the dirty getter: no dep of the model belongs to a computed
dirtyAfterGet(level) == IF level = MaybeDirty THEN NotDirty ELSE level

(***************************************************************************)
(* resetScheduling() after its decrement:                                  *)
(*   while (!pauseScheduleStack && queueEffectSchedulers.length)           *)
(*     queueEffectSchedulers.shift()!()                                    *)
(* where a scheduler is () => { if (_effect.dirty) _effect.run() }.  The   *)
(* loop is followed until a scheduler calls run() (r.run is that effect,   *)
(* and user code runs next) or the loop ends (r.run is Undefined).         *)
(***************************************************************************)
\* a loop that takes the scheduler queued last: queueEffectSchedulers.pop()!()
RECURSIVE DrainLoopPop(_, _, _)
DrainLoopPop(depth, dl, q) ==
  IF depth = 0 /\ Len(q) > 0
  THEN LET e == q[Len(q)]
           lvl == dirtyAfterGet(dl[e])
       IN IF lvl >= Dirty
          THEN [dl |-> dl, q |-> SubSeq(q, 1, Len(q) - 1), run |-> e]
          ELSE DrainLoopPop(depth, [dl EXCEPT ![e] = lvl], SubSeq(q, 1, Len(q) - 1))
  ELSE [dl |-> dl, q |-> q, run |-> Undefined]

RECURSIVE DrainLoop(_, _, _)
DrainLoop(depth, dl, q) ==
  IF depth = 0 /\ Len(q) > 0
  THEN LET e == Head(q)
           lvl == dirtyAfterGet(dl[e])
       IN IF lvl >= Dirty
          THEN [dl |-> dl, q |-> Tail(q), run |-> e]
          ELSE DrainLoop(depth, [dl EXCEPT ![e] = lvl], Tail(q))
  ELSE [dl |-> dl, q |-> q, run |-> Undefined]

\* a run() whose preCleanupEffect keeps the _trackId of the run before
runKeepsTrackId(e, base, ret, dl, sT, aE, rn) ==
  /\ Len(base) < MaxDepth
  /\ dirtyLevel' = [dl EXCEPT ![e] = NotDirty]
  /\ stack' = Append(base, Frame(e, active[e], sT, aE, ret))
  /\ shouldTrack' = IF active[e] THEN TRUE ELSE sT
  /\ activeEffect' = IF active[e] THEN e ELSE aE
  /\ runnings' = IF active[e] THEN [rn EXCEPT ![e] = @ + 1] ELSE rn
  /\ trackId' = trackId
  /\ depsLength' = IF active[e] THEN [depsLength EXCEPT ![e] = 0] ELSE depsLength

(***************************************************************************)
(* ReactiveEffect.run() of effect e up to the call of fn, on top of the    *)
(* stack `base`, from the values dl, sT, aE, rn of _dirtyLevel,            *)
(* shouldTrack, activeEffect and _runnings.                                *)
(***************************************************************************)
run(e, base, ret, dl, sT, aE, rn) ==
  /\ Len(base) < MaxDepth
  /\ dirtyLevel' = [dl EXCEPT ![e] = NotDirty]
  /\ IF ~active[e]
     THEN /\ stack' = Append(base, Frame(e, FALSE, sT, aE, ret))
          /\ shouldTrack' = sT
          /\ activeEffect' = aE
          /\ runnings' = rn
          /\ UNCHANGED <<trackId, depsLength>>
     ELSE /\ trackId[e] < MaxTrackId
          /\ stack' = Append(base, Frame(e, TRUE, sT, aE, ret))
          /\ shouldTrack' = TRUE
          /\ activeEffect' = e
          /\ runnings' = [rn EXCEPT ![e] = @ + 1]
          \* preCleanupEffect
          /\ trackId' = [trackId EXCEPT ![e] = @ + 1]
          /\ depsLength' = [depsLength EXCEPT ![e] = 0]

\* the loop of resetScheduling() from the buffer q, then either fn of the
\* first dirty effect runs or control is back in the code on top of `base`
resetSchedulingLoop(depth, dl, q, base, sT, aE, rn) ==
  LET r == DrainLoop(depth, dl, q) IN
  /\ queueEffectSchedulers' = r.q
  /\ IF r.run # Undefined
     THEN run(r.run, base, "drain", r.dl, sT, aE, rn)
     ELSE /\ dirtyLevel' = r.dl
          /\ stack' = base
          /\ shouldTrack' = sT
          /\ activeEffect' = aE
          /\ runnings' = rn
          /\ UNCHANGED <<trackId, depsLength>>

(***************************************************************************)
(* The state after the module is loaded and the two effects are made with  *)
(* effect(fn, {lazy: true}); the target holds both keys.                   *)
(***************************************************************************)
RInit ==
  /\ active = [e \in Effects |-> TRUE]
  /\ deps = [e \in Effects |-> <<>>]
  /\ trackId = [e \in Effects |-> 0]
  /\ depsLength = [e \in Effects |-> 0]
  /\ runnings = [e \in Effects |-> 0]
  /\ shouldSchedule = [e \in Effects |-> FALSE]
  /\ dirtyLevel = [e \in Effects |-> Dirty]
  /\ allowRecurse = [e \in Effects |-> FALSE]
  /\ activeEffect = Undefined
  /\ shouldTrack = TRUE
  /\ trackStack = <<>>
  /\ pauseScheduleStack = 0
  /\ queueEffectSchedulers = <<>>
  /\ depsMap = [k \in DepKeys |-> NoDep]
  /\ depSubs = [d \in DepIds |-> <<>>]
  /\ obj = [k \in Keys |-> Present]
  /\ stack = <<>>

(***************************************************************************)
(* Scheduler jobs.  A job is a function object with the optional fields    *)
(* id, pre and allowRecurse; the model has five of them:                   *)
(*   j1  {id: 1, allowRecurse: true}     j2  {id: 2}    j2p {id: 2, pre}   *)
(*   jn  {}                              jnp {pre}                          *)
(***************************************************************************)
Jobs == {"j1", "j2", "j2p", "jn", "jnp"}
Null == "null"

\* job.id == null
IdIsNull(j) == j \in {"jn", "jnp"}
JobId(j) == IF j = "j1" THEN 1 ELSE 2
JobPre(j) == j \in {"j2p", "jnp"}
JobAllowRecurse(j) == j = "j1"

\* the jobs that user code passes to queuePostFlushCb
PostCbs == {"jn"}

RECURSION_LIMIT == 100

\* the number Infinity, above every id
Infinity == 1000

getId(job) == IF IdIsNull(job) THEN Infinity ELSE JobId(job)

\* a - b of two numbers that are ids or Infinity: Infinity - Infinity is NaN
Minus(a, b) ==
  IF a = Infinity /\ b = Infinity THEN [nan |-> TRUE, v |-> 0]
  ELSE [nan |-> FALSE, v |-> a - b]

comparator(a, b) ==
  LET diff == Minus(getId(a), getId(b)) IN
  IF ~diff.nan /\ diff.v = 0
  THEN IF JobPre(a) /\ ~JobPre(b) THEN [nan |-> FALSE, v |-> -1]
       ELSE IF JobPre(b) /\ ~JobPre(a) THEN [nan |-> FALSE, v |-> 1]
       ELSE diff
  ELSE diff

\* the comparator of queue.sort (main) or of the sort of flushPostFlushCbs
Compare(a, b, main) == IF main THEN comparator(a, b) ELSE Minus(getId(a), getId(b))

(***************************************************************************)
(* Array.prototype.sort: stable; a comparator result that is NaN counts as *)
(* +0.  Insertion of each element after the last one that does not compare *)
(* greater.                                                                *)
(***************************************************************************)
Greater(r) == ~r.nan /\ r.v > 0

InsPos(out, x, main) ==
  CHOOSE k \in 0..Len(out) :
    /\ \A m \in (k + 1)..Len(out) : Greater(Compare(out[m], x, main))
    /\ k > 0 => ~Greater(Compare(out[k], x, main))

Splice(q, idx, j) ==
  LET i == IF idx > Len(q) THEN Len(q) ELSE idx IN
  SubSeq(q, 1, i) \o <<j>> \o SubSeq(q, i + 1, Len(q))

RemoveAt(q, idx) == SubSeq(q, 1, idx) \o SubSeq(q, idx + 2, Len(q))

RECURSIVE SortFrom(_, _, _, _)
SortFrom(out, q, i, main) ==
  IF i > Len(q) THEN out
  ELSE SortFrom(Splice(out, InsPos(out, q[i], main), q[i]), q, i + 1, main)

Sort(q, main) == SortFrom(<<>>, q, 1, main)

\* a copy that keeps every entry
DedupeNone(cbs) == cbs

\* [...new Set(cbs)]
Dedupe(cbs) ==
  LET keep == {i \in 1..Len(cbs) : \A m \in 1..(i - 1) : cbs[m] # cbs[i]}
      F[i \in 0..Len(cbs)] ==
        IF i = 0 THEN <<>>
        ELSE IF i \in keep THEN Append(F[i - 1], cbs[i]) ELSE F[i - 1]
  IN F[Len(cbs)]

\* array.includes(job, fromIndex) and array.indexOf(job), indices from 0
Includes(q, job, from) == \E p \in from..(Len(q) - 1) : q[p + 1] = job

IndexOf(q, job) ==
  IF Includes(q, job, 0)
  THEN CHOOSE p \in 0..(Len(q) - 1) :
         q[p + 1] = job /\ \A m \in 0..(p - 1) : q[m + 1] # job
  ELSE -1

(***************************************************************************)
(* The module state of the scheduler as one record, and the functions of   *)
(* scheduler.ts on it.                                                     *)
(***************************************************************************)
Sched ==
  [queue |-> queue, flushIndex |-> flushIndex, isFlushing |-> isFlushing,
   isFlushPending |-> isFlushPending,
   pendingPostFlushCbs |-> pendingPostFlushCbs,
   activePostFlushCbs |-> activePostFlushCbs,
   postFlushIndex |-> postFlushIndex,
   currentFlushPromise |-> currentFlushPromise,
   seen |-> seen, appErrors |-> appErrors,
   invoked |-> invoked, queuedInFlush |-> queuedInFlush]

NoCbs == [isNull |-> TRUE, cbs |-> <<>>]

NewMap == [j \in Jobs |-> 0]

\* a queueFlush that asks for no flush
queueFlushNever(s) == s

queueFlush(s) ==
  IF ~s.isFlushing /\ ~s.isFlushPending
  THEN [s EXCEPT !.isFlushPending = TRUE, !.currentFlushPromise = "promise"]
  ELSE s

RECURSIVE BinarySearch(_, _, _, _)
BinarySearch(q, id, start, end) ==
  IF start < end
  THEN LET middle == (start + end) \div 2
           middleJob == q[middle + 1]
           middleJobId == getId(middleJob)
       IN IF middleJobId < id \/ (middleJobId = id /\ JobPre(middleJob))
          THEN BinarySearch(q, id, middle + 1, end)
          ELSE BinarySearch(q, id, start, middle)
  ELSE start

\* a findInsertionIndex that always answers the end of the queue
findInsertionIndexEnd(s, id) == Len(s.queue)

\* a findInsertionIndex that always answers the index behind the running job
findInsertionIndexNoSearch(s, id) == s.flushIndex + 1

findInsertionIndex(s, id) ==
  BinarySearch(s.queue, id, s.flushIndex + 1, Len(s.queue))

\* whether queueJob(job) puts the job in the queue, and the index it lands at
QueueJobInserts(s, job) ==
  IF Len(s.queue) = 0 THEN TRUE
  ELSE ~Includes(s.queue, job,
                 IF s.isFlushing /\ JobAllowRecurse(job)
                 THEN s.flushIndex + 1 ELSE s.flushIndex)

\* a queueJob that puts the job at the head of the queue
InsertionIndexUnshift(s, job) == 0

InsertionIndex(s, job) ==
  LET idx == IF IdIsNull(job) THEN Len(s.queue)
             ELSE findInsertionIndex(s, JobId(job))
  IN IF idx > Len(s.queue) THEN Len(s.queue) ELSE idx

queueJob(s, job) ==
  IF QueueJobInserts(s, job)
  THEN queueFlush([s EXCEPT !.queue = Splice(@, InsertionIndex(s, job), job)])
  ELSE s

invalidateJob(s, job) ==
  LET i == IndexOf(s.queue, job) IN
  IF i > s.flushIndex THEN [s EXCEPT !.queue = RemoveAt(@, i)] ELSE s

queuePostFlushCb(s, cb) ==
  LET push == IF s.activePostFlushCbs.isNull THEN TRUE
              ELSE ~Includes(s.activePostFlushCbs.cbs, cb,
                             IF JobAllowRecurse(cb)
                             THEN s.postFlushIndex + 1 ELSE s.postFlushIndex)
  IN queueFlush(IF push
                THEN [s EXCEPT !.pendingPostFlushCbs = Append(@, cb)]
                ELSE s)

\* handleError(msg, null, ErrorCodes.APP_ERROR_HANDLER): the error is
\* reported and the caller goes on
handleError(s) == [s EXCEPT !.appErrors = @ + 1]

\* a checkRecursiveUpdates that counts and never turns a job down
checkRecursiveUpdatesNoLimit(s, fn) ==
  [s |-> [s EXCEPT !.seen[fn] = @ + 1], skip |-> FALSE]

\* checkRecursiveUpdates(seen, fn): the state after, and what it returns
checkRecursiveUpdates(s, fn) ==
  IF s.seen[fn] = 0
  THEN [s |-> [s EXCEPT !.seen[fn] = 1], skip |-> FALSE]
  ELSE IF s.seen[fn] > RECURSION_LIMIT
       THEN [s |-> handleError(s), skip |-> TRUE]
       ELSE [s |-> [s EXCEPT !.seen[fn] = @ + 1], skip |-> FALSE]

(***************************************************************************)
(* flushJobs(seen) and flushPostFlushCbs(seen), followed from one call of  *)
(* user code to the next: the result is the state in which the body of a   *)
(* job (kind "job", called by the main loop) or of a post-flush callback   *)
(* (kind "post") starts, or the state in which flushJobs has returned      *)
(* (enter is Null).                                                        *)
(***************************************************************************)
RECURSIVE MainLoop(_), PostLoop(_), flushJobs(_)

\* the tail of the finally block of flushJobs
AfterPostFlush(s) ==
  LET s1 == [s EXCEPT !.isFlushing = FALSE, !.currentFlushPromise = Null] IN
  IF Len(s1.queue) > 0 \/ Len(s1.pendingPostFlushCbs) > 0
  THEN flushJobs(s1)
  ELSE [s |-> [s1 EXCEPT !.seen = NewMap, !.invoked = NewMap,
                         !.queuedInFlush = FALSE],
        enter |-> Null, kind |-> Null]

\* the loop of flushPostFlushCbs at `postFlushIndex < activePostFlushCbs.length`
PostLoop(s) ==
  IF s.postFlushIndex < Len(s.activePostFlushCbs.cbs)
  THEN LET cb == s.activePostFlushCbs.cbs[s.postFlushIndex + 1]
           c == checkRecursiveUpdates(s, cb)
       IN IF c.skip
          THEN PostLoop([c.s EXCEPT !.postFlushIndex = @ + 1])
          ELSE [s |-> c.s, enter |-> cb, kind |-> "post"]
  ELSE AfterPostFlush([s EXCEPT !.activePostFlushCbs = NoCbs,
                                !.postFlushIndex = 0])

\* flushPostFlushCbs(seen) called by the finally block of flushJobs
flushPostFlushCbs(s) ==
  IF Len(s.pendingPostFlushCbs) > 0
  THEN LET deduped == Sort(Dedupe(s.pendingPostFlushCbs), FALSE)
           s1 == [s EXCEPT !.pendingPostFlushCbs = <<>>]
       IN IF ~s1.activePostFlushCbs.isNull
          THEN AfterPostFlush([s1 EXCEPT !.activePostFlushCbs.cbs = @ \o deduped])
          ELSE PostLoop([s1 EXCEPT
                           !.activePostFlushCbs = [isNull |-> FALSE, cbs |-> deduped],
                           !.postFlushIndex = 0])
  ELSE AfterPostFlush(s)

\* a main loop that goes to the finally block when the first job of the
\* queue has returned
MainLoopOneJob(s) ==
  IF s.flushIndex = 0 /\ Len(s.queue) > 0
  THEN [s |-> [s EXCEPT !.seen[s.queue[1]] = @ + 1, !.invoked[s.queue[1]] = @ + 1],
        enter |-> s.queue[1], kind |-> "job"]
  ELSE flushPostFlushCbs([s EXCEPT !.flushIndex = 0, !.queue = <<>>])

\* the main loop of flushJobs at `flushIndex < queue.length`, then finally
MainLoop(s) ==
  IF s.flushIndex < Len(s.queue)
  THEN LET job == s.queue[s.flushIndex + 1]
           c == checkRecursiveUpdates(s, job)
       IN IF c.skip
          THEN MainLoop([c.s EXCEPT !.flushIndex = @ + 1])
          ELSE [s |-> [c.s EXCEPT !.invoked[job] = @ + 1],
                enter |-> job, kind |-> "job"]
  ELSE flushPostFlushCbs([s EXCEPT !.flushIndex = 0, !.queue = <<>>])

flushJobs(s) ==
  MainLoop([s EXCEPT !.isFlushPending = FALSE, !.isFlushing = TRUE,
                     !.queue = Sort(@, TRUE), !.flushIndex = 0,
                     !.queuedInFlush = FALSE])

(***************************************************************************)
(* The scheduler's actions.  User code -- the script, the body of a job or *)
(* of a post-flush callback -- calls queueJob, invalidateJob and           *)
(* queuePostFlushCb; the flush that queueFlush has put behind the resolved *)
(* promise starts when the script has ended.                               *)
(***************************************************************************)
SInit ==
  /\ queue = <<>>
  /\ flushIndex = 0
  /\ isFlushing = FALSE
  /\ isFlushPending = FALSE
  /\ pendingPostFlushCbs = <<>>
  /\ activePostFlushCbs = NoCbs
  /\ postFlushIndex = 0
  /\ currentFlushPromise = Null
  /\ seen = NewMap
  /\ appErrors = 0
  /\ jobStack = <<>>
  /\ invoked = NewMap
  /\ queuedInFlush = FALSE
  /\ cancelled = {}
  /\ registered = {}

SetSched(s) ==
  /\ queue' = s.queue
  /\ flushIndex' = s.flushIndex
  /\ isFlushing' = s.isFlushing
  /\ isFlushPending' = s.isFlushPending
  /\ pendingPostFlushCbs' = s.pendingPostFlushCbs
  /\ activePostFlushCbs' = s.activePostFlushCbs
  /\ postFlushIndex' = s.postFlushIndex
  /\ currentFlushPromise' = s.currentFlushPromise
  /\ seen' = s.seen
  /\ appErrors' = s.appErrors
  /\ invoked' = s.invoked
  /\ queuedInFlush' = s.queuedInFlush

\* the main loop of flushJobs is running a job
InMainLoop == IF jobStack = <<>> THEN FALSE ELSE jobStack[1].kind = "job"

\* the queue holds at most maxQueue jobs
QueueJob(job, maxQueue) ==
  /\ IF QueueJobInserts(Sched, job) THEN Len(queue) < maxQueue ELSE TRUE
  /\ SetSched([queueJob(Sched, job) EXCEPT
                 !.queuedInFlush =
                    IF InMainLoop /\ QueueJobInserts(Sched, job) THEN TRUE ELSE @])
  /\ UNCHANGED jobStack

InvalidateJob(job) ==
  /\ SetSched(invalidateJob(Sched, job))
  /\ UNCHANGED jobStack

QueuePostFlushCb(cb) ==
  /\ Len(pendingPostFlushCbs) < MaxPost
  /\ SetSched(queuePostFlushCb(Sched, cb))
  /\ UNCHANGED jobStack

\* user code starts where the flush has got to; a job is called at most
\* maxRuns times in one flush
Enter(r, base, maxRuns) ==
  /\ IF r.enter = Null THEN TRUE ELSE r.s.seen[r.enter] <= maxRuns
  /\ SetSched(r.s)
  /\ jobStack' = IF r.enter = Null THEN base
                 ELSE Append(base, [job |-> r.enter, kind |-> r.kind])

\* the microtask resolvedPromise.then(flushJobs)
FlushJobs(maxRuns) ==
  /\ isFlushPending
  /\ jobStack = <<>>
  /\ \E r \in {flushJobs([Sched EXCEPT !.seen = NewMap, !.appErrors = 0,
                                          !.invoked = NewMap])} :
       Enter(r, <<>>, maxRuns)

\* the body of a job or of a post-flush callback returns to the loop that
\* called it
JobReturn(maxRuns) ==
  /\ jobStack # <<>>
  /\ \E r \in {IF jobStack[Len(jobStack)].kind = "job"
               THEN MainLoop([Sched EXCEPT !.flushIndex = @ + 1])
               ELSE PostLoop([Sched EXCEPT !.postFlushIndex = @ + 1])} :
       Enter(r, Pop(jobStack), maxRuns)

GInit ==
  /\ epochReads = [e \in Effects |-> {}]
  /\ everRead = [e \in Effects |-> {}]
  /\ runsSince = [e \in Effects |-> -1]
  /\ ranInBatch = [e \in Effects |-> FALSE]

\* runner(): user code (the top level script or the body of an effect)
\* calls effect.run()
Runner(e) ==
  /\ run(e, stack, "user", dirtyLevel, shouldTrack, activeEffect, runnings)
  /\ UNCHANGED <<active, deps, shouldSchedule, allowRecurse, trackStack,
                 pauseScheduleStack, queueEffectSchedulers, depsMap, depSubs, obj>>

\* fn returns: the finally block of run(); when run() was called by the
\* effect's scheduler, the loop of resetScheduling() goes on
FnReturn ==
  /\ stack # <<>>
  /\ LET f == Top
         e == f.e
         h == IF f.act
              THEN postCleanupEffect(Heap, deps[e], depsLength[e], e, trackId[e])
              ELSE Heap
         rn == IF f.act THEN [runnings EXCEPT ![e] = @ - 1] ELSE runnings
         aE == IF f.act THEN f.le ELSE activeEffect
         sT == IF f.act THEN f.lst ELSE shouldTrack
     IN /\ depSubs' = h.subs
        /\ depsMap' = h.map
        /\ deps' = IF f.act THEN [deps EXCEPT ![e] = TruncDeps(@, depsLength[e])]
                   ELSE deps
        /\ IF f.ret = "drain"
           THEN resetSchedulingLoop(pauseScheduleStack, dirtyLevel,
                                    queueEffectSchedulers, Pop(stack), sT, aE, rn)
           ELSE /\ stack' = Pop(stack)
                /\ runnings' = rn
                /\ activeEffect' = aE
                /\ shouldTrack' = sT
                /\ UNCHANGED <<trackId, depsLength, dirtyLevel,
                               queueEffectSchedulers>>
  /\ UNCHANGED <<active, shouldSchedule, allowRecurse, trackStack,
                 pauseScheduleStack, obj>>

\* fn throws out of a run() that has no finally block
FnThrowsNoFinally ==
  /\ stack # <<>>
  /\ stack' = Pop(stack)
  /\ UNCHANGED <<active, deps, trackId, depsLength, runnings, shouldSchedule,
                 dirtyLevel, allowRecurse, activeEffect, shouldTrack, trackStack,
                 pauseScheduleStack, queueEffectSchedulers, depsMap, depSubs, obj>>

\* fn throws: the finally block of run(), then the failure reaches the code
\* that called run(), or that made the write whose resetScheduling() called
\* the effect's scheduler: the loop of resetScheduling() is left with the
\* schedulers it has not called in the buffer.  That code catches the
\* failure (or fails in its turn, by another step of this kind).
FnThrows ==
  /\ stack # <<>>
  /\ LET f == Top
         e == f.e
         h == IF f.act
              THEN postCleanupEffect(Heap, deps[e], depsLength[e], e, trackId[e])
              ELSE Heap
     IN /\ depSubs' = h.subs
        /\ depsMap' = h.map
        /\ deps' = IF f.act THEN [deps EXCEPT ![e] = TruncDeps(@, depsLength[e])]
                   ELSE deps
        /\ runnings' = IF f.act THEN [runnings EXCEPT ![e] = @ - 1] ELSE runnings
        /\ activeEffect' = IF f.act THEN f.le ELSE activeEffect
        /\ shouldTrack' = IF f.act THEN f.lst ELSE shouldTrack
        /\ stack' = Pop(stack)
  /\ UNCHANGED <<active, shouldSchedule, allowRecurse, trackStack,
                 pauseScheduleStack, obj, trackId, depsLength, dirtyLevel,
                 queueEffectSchedulers>>

\* ReactiveEffect.stop()
Stop(e) ==
  /\ IF active[e]
     THEN LET tid == trackId[e] + 1
              h == postCleanupEffect(Heap, deps[e], 0, e, tid)
          IN /\ trackId[e] < MaxTrackId
             /\ trackId' = [trackId EXCEPT ![e] = tid]
             /\ depsLength' = [depsLength EXCEPT ![e] = 0]
             /\ depSubs' = h.subs
             /\ depsMap' = h.map
             /\ deps' = [deps EXCEPT ![e] = TruncDeps(@, 0)]
             /\ active' = [active EXCEPT ![e] = FALSE]
     ELSE UNCHANGED <<trackId, depsLength, depSubs, depsMap, deps, active>>
  /\ UNCHANGED <<runnings, shouldSchedule, dirtyLevel, allowRecurse,
                 activeEffect, shouldTrack, trackStack, pauseScheduleStack,
                 queueEffectSchedulers, obj, stack>>

(***************************************************************************)
(* trigger(target, type, key) for the plain-object target: the deps it     *)
(* collects, in order (undefined entries are skipped by the loop), then    *)
(* pauseScheduling(); triggerEffects(dep, Dirty) for each;                 *)
(* resetScheduling().                                                      *)
(***************************************************************************)
TriggerDeps(type, key) ==
  LET first == <<depsMap[key]>>
      rest == IF type \in {"add", "delete"} THEN <<depsMap[ITERATE_KEY]>> ELSE <<>>
  IN SelectSeq(first \o rest, LAMBDA d : d # NoDep)

RECURSIVE TriggerLoop(_, _, _)
TriggerLoop(st, ds, i) ==
  IF i > Len(ds) THEN st
  ELSE TriggerLoop(triggerEffects(st, depSubs[ds[i]], Dirty), ds, i + 1)

EffState == [dl |-> dirtyLevel, ss |-> shouldSchedule, q |-> queueEffectSchedulers]

trigger(type, key) ==
  LET st == TriggerLoop(EffState, TriggerDeps(type, key), 1) IN
  /\ Len(st.q) <= MaxBuffer
  /\ shouldSchedule' = st.ss
  /\ resetSchedulingLoop(pauseScheduleStack, st.dl, st.q, stack,
                         shouldTrack, activeEffect, runnings)

(***************************************************************************)
(* The traps of the mutable (deep) handler on the plain-object target.     *)
(***************************************************************************)
ProxyGet(k) ==
  /\ CanTrack(k)
  /\ track(k)
  /\ UNCHANGED <<active, trackId, runnings, shouldSchedule, dirtyLevel,
                 allowRecurse, activeEffect, shouldTrack, trackStack,
                 pauseScheduleStack, queueEffectSchedulers, obj, stack>>

ProxyOwnKeys ==
  /\ CanTrack(ITERATE_KEY)
  /\ track(ITERATE_KEY)
  /\ UNCHANGED <<active, trackId, runnings, shouldSchedule, dirtyLevel,
                 allowRecurse, activeEffect, shouldTrack, trackStack,
                 pauseScheduleStack, queueEffectSchedulers, obj, stack>>

\* a comparison that finds every written value changed
hasChangedAlways(same) == TRUE

\* hasChanged(value, oldValue) for a write of the stored value (same) or of
\* another value
hasChanged(same) == ~same

NoTrigger ==
  UNCHANGED <<dirtyLevel, shouldSchedule, queueEffectSchedulers, stack,
              shouldTrack, activeEffect, runnings, trackId, depsLength>>

ProxySet(k, same) ==
  /\ obj' = [obj EXCEPT ![k] = Present]
  /\ LET hadKey == obj[k] # Undefined IN
     IF ~hadKey THEN trigger("add", k)
     ELSE IF hasChanged(same) THEN trigger("set", k)
     ELSE NoTrigger
  /\ UNCHANGED <<active, deps, allowRecurse, trackStack, pauseScheduleStack,
                 depsMap, depSubs>>

ProxyDelete(k) ==
  /\ obj' = [obj EXCEPT ![k] = Undefined]
  /\ LET hadKey == obj[k] # Undefined IN
     IF hadKey THEN trigger("delete", k) ELSE NoTrigger
  /\ UNCHANGED <<active, deps, allowRecurse, trackStack, pauseScheduleStack,
                 depsMap, depSubs>>

(***************************************************************************)
(* pauseTracking / enableTracking / resetTracking                          *)
(***************************************************************************)
PauseTracking ==
  /\ Len(trackStack) < MaxTrackStack
  /\ trackStack' = Append(trackStack, shouldTrack)
  /\ shouldTrack' = FALSE
  /\ UNCHANGED <<active, deps, trackId, depsLength, runnings, shouldSchedule,
                 dirtyLevel, allowRecurse, activeEffect, pauseScheduleStack,
                 queueEffectSchedulers, depsMap, depSubs, obj, stack>>

EnableTracking ==
  /\ Len(trackStack) < MaxTrackStack
  /\ trackStack' = Append(trackStack, shouldTrack)
  /\ shouldTrack' = TRUE
  /\ UNCHANGED <<active, deps, trackId, depsLength, runnings, shouldSchedule,
                 dirtyLevel, allowRecurse, activeEffect, pauseScheduleStack,
                 queueEffectSchedulers, depsMap, depSubs, obj, stack>>

ResetTracking ==
  /\ IF trackStack = <<>>
     THEN shouldTrack' = TRUE /\ UNCHANGED trackStack
     ELSE /\ shouldTrack' = trackStack[Len(trackStack)]
          /\ trackStack' = Pop(trackStack)
  /\ UNCHANGED <<active, deps, trackId, depsLength, runnings, shouldSchedule,
                 dirtyLevel, allowRecurse, activeEffect, pauseScheduleStack,
                 queueEffectSchedulers, depsMap, depSubs, obj, stack>>

(***************************************************************************)
(* pauseScheduling / resetScheduling called by user code (in pairs)        *)
(***************************************************************************)
PauseScheduling ==
  /\ pauseScheduleStack < MaxPause
  /\ pauseScheduleStack' = pauseScheduleStack + 1
  /\ UNCHANGED <<active, deps, trackId, depsLength, runnings, shouldSchedule,
                 dirtyLevel, allowRecurse, activeEffect, shouldTrack, trackStack,
                 queueEffectSchedulers, depsMap, depSubs, obj, stack>>

ResetScheduling ==
  /\ pauseScheduleStack > 0
  /\ pauseScheduleStack' = pauseScheduleStack - 1
  /\ resetSchedulingLoop(pauseScheduleStack - 1, dirtyLevel,
                         queueEffectSchedulers, stack, shouldTrack,
                         activeEffect, runnings)
  /\ UNCHANGED <<active, deps, shouldSchedule, allowRecurse, trackStack,
                 depsMap, depSubs, obj>>

(***************************************************************************)
(* No trigger() or resetScheduling() call is on the call stack.            *)
(***************************************************************************)
Quiescent ==
  /\ pauseScheduleStack = 0
  /\ \A i \in 1..Len(stack) : stack[i].ret = "user"

(***************************************************************************)
(* The effect whose fn a step enters (Undefined: none).                    *)
(***************************************************************************)
FnReturnStarts ==
  IF Top.ret = "drain"
  THEN DrainLoop(pauseScheduleStack, dirtyLevel, queueEffectSchedulers).run
  ELSE Undefined

SetChanges(k, same) == IF obj[k] = Undefined THEN TRUE ELSE hasChanged(same)

SetStarts(k, same) ==
  IF SetChanges(k, same)
  THEN LET st == TriggerLoop(EffState,
                             TriggerDeps(IF obj[k] = Undefined THEN "add" ELSE "set", k), 1)
       IN DrainLoop(pauseScheduleStack, st.dl, st.q).run
  ELSE Undefined

ResetStarts ==
  DrainLoop(pauseScheduleStack - 1, dirtyLevel, queueEffectSchedulers).run

(***************************************************************************)
(* The history after a step that enters fn of `started`, calls stop() on   *)
(* `stopped`, reads `readKey` through the wrapper and changes the value of *)
(* `changedKey` (Undefined: the step does not do that).                    *)
(***************************************************************************)
Reader(readKey) ==
  IF readKey # Undefined /\ Tracking THEN activeEffect ELSE Undefined

ObserveReads(started, stopped, readKey) ==
  epochReads' =
    [e \in Effects |->
       IF (e = started \/ e = stopped) /\ active[e] THEN {}
       ELSE IF e = Reader(readKey) THEN epochReads[e] \cup {readKey}
       ELSE epochReads[e]]

ObserveEver(readKey) ==
  everRead' =
    [e \in Effects |->
       IF e = Reader(readKey) THEN everRead[e] \cup {readKey} ELSE everRead[e]]

\* a change of changedKey is one that effect e has to react to
Opens(e, changedKey) ==
  /\ changedKey # Undefined
  /\ changedKey \in epochReads[e]
  /\ active[e]
  /\ runnings[e] = 0

ObserveRuns(started, settled, changedKey) ==
  LET cnt(e) == LET b == IF runsSince[e] = -1 /\ Opens(e, changedKey)
                         THEN 0 ELSE runsSince[e]
                IN IF e = started /\ b >= 0 /\ b < 2 THEN b + 1 ELSE b
  IN /\ runsSince' =
          [e \in Effects |-> IF Quiescent' \/ e = settled THEN -1 ELSE cnt(e)]
     /\ ranInBatch' =
          [e \in Effects |->
             IF pauseScheduleStack' = 0 THEN FALSE
             ELSE IF e = started THEN TRUE
             ELSE ranInBatch[e]]

(***************************************************************************)
(* The dependency graph alone: effects run (nested too), stop and read     *)
(* keys, with tracking paused and resumed; nothing is written.             *)
(***************************************************************************)
TrackNext ==
  \/ \E e \in Effects : Runner(e) /\ UNCHANGED <<gvars, svars, cvars, xvars>>
  \/ FnReturn /\ UNCHANGED <<gvars, svars, cvars, xvars>>
  \/ \E e \in Effects : Stop(e) /\ UNCHANGED <<gvars, svars, cvars, xvars>>
  \/ \E k \in Keys : ProxyGet(k) /\ UNCHANGED <<gvars, svars, cvars, xvars>>
  \/ PauseTracking /\ UNCHANGED <<gvars, svars, cvars, xvars>>
  \/ EnableTracking /\ UNCHANGED <<gvars, svars, cvars, xvars>>
  \/ ResetTracking /\ UNCHANGED <<gvars, svars, cvars, xvars>>

\* the fns that user code passes to nextTick
Ticks == {"t1", "t2"}

TInit ==
  /\ microtasks = <<>>
  /\ reactions = <<>>
  /\ inTask = TRUE
  /\ ticks = [t \in Ticks |-> "none"]

FInit ==
  /\ schedErrors = 0
  /\ owed = {}

EInit == lastExit = "none"

\* the array [10, 20]
AInit ==
  /\ arrLength = MaxLen
  /\ lastSet = [same |-> FALSE, missed |-> {}]

YInit ==
  /\ batches = <<>>
  /\ staleSched = [e \in Effects |-> FALSE]
  /\ preI = 0
  /\ preSeen = NewMap
  /\ bypassed = {}
  /\ tdm = [kind |-> "object", keys |-> {}]
  /\ tout = [kind |-> "object", type |-> "none", key |-> Undefined, newValue |-> 0,
             keys |-> {}, fired |-> {}]
  /\ wrote = [n |-> 0, key |-> Undefined, same |-> FALSE]
  /\ waiting = [jobs |-> {}, cbs |-> {}]

Init == RInit /\ GInit /\ SInit /\ TInit /\ FInit /\ EInit /\ AInit /\ YInit

SpecTrack == Init /\ [][TrackNext]_vars

(***************************************************************************)
(* The array target.  The get trap tracks the key that is read, the index  *)
(* 1 or "length"; the set trap for the key "length" has hadKey true and      *)
(* calls trigger(target, SET, "length", newValue, oldValue) when the value *)
(* has changed.  trigger() then takes, with depsMap.forEach, the deps of   *)
(* the key "length" and of the keys that are >= Number(newValue), in the   *)
(* order the keys were put in depsMap, which the model does not record:    *)
(* any order is taken.  The top level script runs the effects and sets     *)
(* the length; the body of an effect reads the index and the length.       *)
(***************************************************************************)
KeyOrders == {<<"length", "1">>, <<"1", "length">>}

\* key >= Number(newValue) for a string key: the key as a number, NaN for
\* "length"
KeyAtLeast(k, newValue) == IF k = "1" THEN 1 >= newValue ELSE FALSE

\* a trigger that takes the dep of "length" alone
LengthDepsOnlyLength(order, newValue) ==
  SelectSeq(<<depsMap["length"]>>, LAMBDA d : d # NoDep)

LengthDeps(order, newValue) ==
  LET hit(k) == k = "length" \/ KeyAtLeast(k, newValue)
      ks == SelectSeq(order, LAMBDA k : depsMap[k] # NoDep /\ hit(k))
  IN [i \in 1..Len(ks) |-> depsMap[ks[i]]]

triggerLength(order, newValue) ==
  LET st == TriggerLoop(EffState, LengthDeps(order, newValue), 1) IN
  /\ Len(st.q) <= MaxBuffer
  /\ shouldSchedule' = st.ss
  /\ resetSchedulingLoop(pauseScheduleStack, st.dl, st.q, stack,
                         shouldTrack, activeEffect, runnings)

\* array.length = n through the wrapper
SetLength(n) ==
  /\ arrLength' = n
  /\ IF hasChanged(n = arrLength)
     THEN \E order \in KeyOrders : triggerLength(order, n)
     ELSE NoTrigger
  /\ UNCHANGED <<active, deps, allowRecurse, trackStack, pauseScheduleStack,
                 depsMap, depSubs, obj>>

\* the step has entered fn of e
Entered(e) ==
  /\ stack' # <<>>
  /\ stack'[Len(stack')].e = e
  /\ stack' # stack
  /\ Len(stack') >= Len(stack)

ArrayObserve(readKey) ==
  /\ epochReads' =
       [e \in Effects |->
          IF Entered(e) THEN {}
          ELSE IF e = Reader(readKey) THEN epochReads[e] \cup {readKey}
          ELSE epochReads[e]]
  /\ UNCHANGED <<everRead, runsSince, ranInBatch, svars, cvars, tvars, fvars, evars, yvars>>

\* the keys that a change of the length to n concerns
Concerned(n) == {"length"} \cup {k \in ArrKeys : KeyAtLeast(k, n)}

\* the effects whose scheduler the step has buffered or called
Scheduled ==
  {e \in Effects :
     \/ Entered(e)
     \/ \E i \in 1..Len(queueEffectSchedulers') : queueEffectSchedulers'[i] = e}

ObserveSet(n) ==
  lastSet' = [same |-> n = arrLength,
              missed |-> {e \in Effects :
                           (e \in Scheduled) # (epochReads[e] \cap Concerned(n) # {})}]

ArrayNext ==
  \/ /\ stack = <<>>
     /\ \E e \in Effects : Runner(e) /\ ArrayObserve(Undefined) /\ UNCHANGED avars
  \/ FnReturn /\ ArrayObserve(Undefined) /\ UNCHANGED avars
  \/ \E k \in ArrKeys : ProxyGet(k) /\ ArrayObserve(k) /\ UNCHANGED avars
  \/ /\ stack = <<>>
     /\ \E n \in 0..MaxLen : SetLength(n) /\ ArrayObserve(Undefined) /\ ObserveSet(n)

SpecArray == Init /\ [][ArrayNext]_vars

(***************************************************************************)
(* Effects whose fn may fail: user code and the body of an effect run      *)
(* effects and read and write keys; the top level script pauses and resets *)
(* tracking; the body of an effect returns or throws.                      *)
(***************************************************************************)
ObserveExit(how) ==
  /\ lastExit' = IF Len(stack') > Len(stack) THEN "none"
                 ELSE IF Len(stack') < Len(stack) THEN how
                 ELSE lastExit
  /\ UNCHANGED <<gvars, svars, cvars, tvars, fvars, avars, yvars>>

ThrowNext ==
  \/ \E e \in Effects : Runner(e) /\ ObserveExit("none")
  \/ FnReturn /\ ObserveExit("return")
  \/ FnThrows /\ ObserveExit("throw")
  \/ \E k \in Keys : ProxyGet(k) /\ ObserveExit("none")
  \/ \E k \in Keys : ProxySet(k, FALSE) /\ ObserveExit("none")
  \/ stack = <<>> /\ PauseTracking /\ ObserveExit("none")
  \/ stack = <<>> /\ ResetTracking /\ ObserveExit("none")

SpecThrow == Init /\ [][ThrowNext]_vars

(***************************************************************************)
(* Scheduling of effects: the top level script runs effects, writes keys   *)
(* and batches writes with pauseScheduling / resetScheduling; the body of  *)
(* an effect reads and writes keys.                                        *)
(***************************************************************************)
SchedObserve(started, settled, readKey, changedKey) ==
  /\ ObserveReads(started, Undefined, readKey)
  /\ ObserveRuns(started, settled, changedKey)
  /\ UNCHANGED <<everRead, svars, cvars, xvars>>

SchedNext ==
  \/ /\ stack = <<>>
     /\ \E e \in Effects : Runner(e) /\ SchedObserve(e, e, Undefined, Undefined)
  \/ FnReturn /\ SchedObserve(FnReturnStarts, Undefined, Undefined, Undefined)
  \/ \E k \in Keys : ProxyGet(k) /\ SchedObserve(Undefined, Undefined, k, Undefined)
  \/ \E k \in Keys, same \in BOOLEAN :
       /\ ProxySet(k, same)
       /\ SchedObserve(SetStarts(k, same), Undefined, Undefined,
                       IF SetChanges(k, same) THEN k ELSE Undefined)
  \/ /\ stack = <<>>
     /\ PauseScheduling
     /\ SchedObserve(Undefined, Undefined, Undefined, Undefined)
  \/ /\ stack = <<>>
     /\ ResetScheduling
     /\ SchedObserve(ResetStarts, Undefined, Undefined, Undefined)

SpecSched == Init /\ [][SchedNext]_vars

(***************************************************************************)
(* Effects that write what they read: as above, and the effect e1 may be   *)
(* made with effect(fn, {lazy: true, allowRecurse: true}).                 *)
(***************************************************************************)
AllowRecurse(e) ==
  /\ stack = <<>>
  /\ \A e2 \in Effects : trackId[e2] = 0
  /\ pauseScheduleStack = 0
  /\ ~allowRecurse[e]
  /\ allowRecurse' = [allowRecurse EXCEPT ![e] = TRUE]
  /\ UNCHANGED <<active, deps, trackId, depsLength, runnings, shouldSchedule,
                 dirtyLevel, activeEffect, shouldTrack, trackStack,
                 pauseScheduleStack, queueEffectSchedulers, depsMap, depSubs,
                 obj, stack>>

InBuffer(q, e) == \E i \in 1..Len(q) : q[i] = e

RecurseObserve(started, settled, readKey, changedKey) ==
  /\ ObserveReads(started, Undefined, readKey)
  /\ ObserveRuns(started, settled, changedKey)
  /\ staleSched' =
       [e \in Effects |->
          /\ InBuffer(queueEffectSchedulers', e)
          /\ (Entered(e) \/ staleSched[e])]
  /\ UNCHANGED <<everRead, svars, cvars, tvars, fvars, evars, avars, nvars, pvars, zvars>>

RecurseNext ==
  \/ /\ stack = <<>>
     /\ \E e \in Effects : Runner(e) /\ RecurseObserve(e, e, Undefined, Undefined)
  \/ FnReturn /\ RecurseObserve(FnReturnStarts, Undefined, Undefined, Undefined)
  \/ \E k \in Keys : ProxyGet(k) /\ RecurseObserve(Undefined, Undefined, k, Undefined)
  \/ \E k \in Keys :
       /\ ProxySet(k, FALSE)
       /\ RecurseObserve(SetStarts(k, FALSE), Undefined, Undefined,
                         IF SetChanges(k, FALSE) THEN k ELSE Undefined)
  \/ /\ stack = <<>>
     /\ PauseScheduling
     /\ RecurseObserve(Undefined, Undefined, Undefined, Undefined)
  \/ /\ stack = <<>>
     /\ ResetScheduling
     /\ RecurseObserve(ResetStarts, Undefined, Undefined, Undefined)
  \/ AllowRecurse("e1") /\ RecurseObserve(Undefined, Undefined, Undefined, Undefined)

SpecRecurse == Init /\ [][RecurseNext]_vars

(***************************************************************************)
(* Effects that are stopped and that switch the keys they read: the top    *)
(* level script runs and stops effects and writes keys; the body of an     *)
(* effect reads and writes keys and stops effects.                         *)
(***************************************************************************)
SwapObserve(started, stopped, readKey) ==
  /\ ObserveReads(started, stopped, readKey)
  /\ ObserveEver(readKey)
  /\ UNCHANGED <<runsSince, ranInBatch, svars, cvars, xvars>>

SwapNext ==
  \/ /\ stack = <<>>
     /\ \E e \in Effects : Runner(e) /\ SwapObserve(e, Undefined, Undefined)
  \/ FnReturn /\ SwapObserve(FnReturnStarts, Undefined, Undefined)
  \/ \E e \in Effects : Stop(e) /\ SwapObserve(Undefined, e, Undefined)
  \/ \E k \in Keys : ProxyGet(k) /\ SwapObserve(Undefined, Undefined, k)
  \/ \E k \in Keys, same \in BOOLEAN :
       ProxySet(k, same) /\ SwapObserve(SetStarts(k, same), Undefined, Undefined)

SpecSwap == Init /\ [][SwapNext]_vars

(***************************************************************************)
(* The scheduler alone.                                                    *)
(***************************************************************************)
JobsNext ==
  \/ \E job \in Jobs : QueueJob(job, MaxQueue) /\ UNCHANGED <<rvars, gvars, cvars, xvars>>
  \/ \E job \in Jobs : InvalidateJob(job) /\ UNCHANGED <<rvars, gvars, cvars, xvars>>
  \/ \E cb \in PostCbs : QueuePostFlushCb(cb) /\ UNCHANGED <<rvars, gvars, cvars, xvars>>
  \/ FlushJobs(MaxRuns) /\ UNCHANGED <<rvars, gvars, cvars, xvars>>
  \/ JobReturn(MaxRuns) /\ UNCHANGED <<rvars, gvars, cvars, xvars>>

SpecJobs == Init /\ [][JobsNext]_vars

(***************************************************************************)
(* The main queue of the scheduler with the record of the jobs that were   *)
(* cancelled.                                                              *)
(***************************************************************************)
\* job sits in the queue and the main loop has not started it
Pending(job) ==
  \E p \in (IF InMainLoop THEN flushIndex + 2 ELSE 1)..Len(queue) : queue[p] = job

\* the flush has returned: nothing is cancelled any more
ObserveFlush == cancelled' = IF jobStack' = <<>> THEN {} ELSE cancelled

CancelNext ==
  \/ \E job \in Jobs :
       /\ QueueJob(job, MaxQueue)
       /\ cancelled' = cancelled \ {job}
       /\ UNCHANGED <<rvars, gvars, registered, xvars>>
  \/ \E job \in Jobs :
       /\ InvalidateJob(job)
       /\ cancelled' = IF Pending(job) THEN cancelled \cup {job} ELSE cancelled
       /\ UNCHANGED <<rvars, gvars, registered, xvars>>
  \/ FlushJobs(MaxRuns) /\ ObserveFlush /\ UNCHANGED <<rvars, gvars, registered, xvars>>
  \/ JobReturn(MaxRuns) /\ ObserveFlush /\ UNCHANGED <<rvars, gvars, registered, xvars>>

SpecCancel == Init /\ [][CancelNext]_vars

(***************************************************************************)
(* The scheduler with the record of the post-flush callbacks that jobs of  *)
(* the main queue have registered.                                         *)
(***************************************************************************)
\* queuePostFlushCb(cb) is called by a job of the main queue and pushes cb
Registers(cb) ==
  InMainLoop /\ pendingPostFlushCbs' # pendingPostFlushCbs

\* a callback that returns, and every callback when the flush has returned,
\* is registered no more
ObservePost ==
  registered' =
    IF jobStack' = <<>> THEN {}
    ELSE IF jobStack # <<>> /\ ~InMainLoop
         THEN registered \ {jobStack[1].job}
         ELSE registered

PostNext ==
  \/ \E job \in Jobs :
       QueueJob(job, MaxQueue) /\ UNCHANGED <<rvars, gvars, cvars, xvars>>
  \/ \E job \in Jobs :
       InvalidateJob(job) /\ UNCHANGED <<rvars, gvars, cvars, xvars>>
  \/ \E cb \in PostCbs :
       /\ QueuePostFlushCb(cb)
       /\ registered' = IF Registers(cb) THEN registered \cup {cb} ELSE registered
       /\ UNCHANGED <<rvars, gvars, cancelled, xvars>>
  \/ FlushJobs(MaxRuns) /\ ObservePost /\ UNCHANGED <<rvars, gvars, cancelled, xvars>>
  \/ JobReturn(MaxRuns) /\ ObservePost /\ UNCHANGED <<rvars, gvars, cancelled, xvars>>

SpecPost == Init /\ [][PostNext]_vars

(***************************************************************************)
(* The scheduler on the microtask queue.  A task is its script, then the   *)
(* microtasks in the order they were queued, each run to its end: the      *)
(* script, the body of a job, of a post-flush callback and of a tick call  *)
(* queueJob, queuePostFlushCb and nextTick.                                *)
(***************************************************************************)
TickJobs == {"j2", "jn"}

\* user code is running
UserCode == inTask \/ jobStack # <<>>

\* nextTick(fn) that puts fn at the head of the microtask queue
nextTickAhead(cfp, mt, rx, fn) == [mt |-> <<fn>> \o mt, rx |-> rx]

\* nextTick(fn): p.then(fn) for p = currentFlushPromise || resolvedPromise
nextTick(cfp, mt, rx, fn) ==
  IF cfp = Null
  THEN [mt |-> Append(mt, fn), rx |-> rx]
  ELSE [mt |-> mt, rx |-> Append(rx, fn)]

\* queueFlush has called resolvedPromise.then(flushJobs)
ObserveQueueFlush ==
  /\ microtasks' = IF isFlushPending' /\ ~isFlushPending
                   THEN Append(microtasks, "flush") ELSE microtasks
  /\ UNCHANGED <<reactions, inTask, ticks>>

\* when flushJobs has returned, the promise it was the reaction of is
\* fulfilled and the fns put on it are queued
ObserveSettle(mt) ==
  IF jobStack' = <<>>
  THEN /\ microtasks' = mt \o reactions
       /\ reactions' = <<>>
       /\ ticks' = [t \in Ticks |-> IF ticks[t] = "late" THEN "done" ELSE ticks[t]]
       /\ UNCHANGED inTask
  ELSE /\ microtasks' = mt
       /\ UNCHANGED <<reactions, inTask, ticks>>

NextTick(t) ==
  /\ UserCode
  /\ ticks[t] = "none"
  /\ LET r == nextTick(currentFlushPromise, microtasks, reactions, t) IN
       /\ microtasks' = r.mt
       /\ reactions' = r.rx
  /\ ticks' = [ticks EXCEPT ![t] = IF isFlushPending \/ isFlushing
                                   THEN "late" ELSE "early"]
  /\ UNCHANGED <<inTask, svars>>

ScriptEnd ==
  /\ inTask
  /\ jobStack = <<>>
  /\ inTask' = FALSE
  /\ UNCHANGED <<microtasks, reactions, ticks, svars>>

\* the next task starts when the microtask queue is empty
ScriptStart ==
  /\ ~inTask
  /\ jobStack = <<>>
  /\ microtasks = <<>>
  /\ inTask' = TRUE
  /\ UNCHANGED <<microtasks, reactions, ticks, svars>>

\* the microtask at the head of the queue starts
Microtask(task) ==
  /\ ~inTask
  /\ jobStack = <<>>
  /\ microtasks # <<>>
  /\ Head(microtasks) = task

TickFlush ==
  /\ Microtask("flush")
  /\ FlushJobs(MaxRuns)
  /\ ObserveSettle(Tail(microtasks))

TickJobReturn ==
  /\ jobStack # <<>>
  /\ jobStack[1].kind # "tick"
  /\ JobReturn(MaxRuns)
  /\ ObserveSettle(microtasks)

RunTick(t) ==
  /\ Microtask(t)
  /\ microtasks' = Tail(microtasks)
  /\ jobStack' = <<[job |-> t, kind |-> "tick"]>>
  /\ UNCHANGED <<reactions, inTask, ticks>>
  /\ UNCHANGED <<queue, flushIndex, isFlushing, isFlushPending,
                 pendingPostFlushCbs, activePostFlushCbs, postFlushIndex,
                 currentFlushPromise, seen, appErrors, invoked, queuedInFlush>>

TickReturn ==
  /\ jobStack # <<>>
  /\ jobStack[1].kind = "tick"
  /\ jobStack' = <<>>
  /\ ticks' = [ticks EXCEPT ![jobStack[1].job] = "none"]
  /\ UNCHANGED <<microtasks, reactions, inTask>>
  /\ UNCHANGED <<queue, flushIndex, isFlushing, isFlushPending,
                 pendingPostFlushCbs, activePostFlushCbs, postFlushIndex,
                 currentFlushPromise, seen, appErrors, invoked, queuedInFlush>>

TickNext ==
  \/ \E job \in TickJobs :
       /\ UserCode
       /\ QueueJob(job, MaxQueue)
       /\ ObserveQueueFlush
       /\ UNCHANGED <<rvars, gvars, cvars, fvars, evars, avars, yvars>>
  \/ \E cb \in PostCbs :
       /\ UserCode
       /\ QueuePostFlushCb(cb)
       /\ ObserveQueueFlush
       /\ UNCHANGED <<rvars, gvars, cvars, fvars, evars, avars, yvars>>
  \/ \E t \in Ticks : NextTick(t) /\ UNCHANGED <<rvars, gvars, cvars, fvars, evars, avars, yvars>>
  \/ ScriptEnd /\ UNCHANGED <<rvars, gvars, cvars, fvars, evars, avars, yvars>>
  \/ ScriptStart /\ UNCHANGED <<rvars, gvars, cvars, fvars, evars, avars, yvars>>
  \/ TickFlush /\ UNCHANGED <<rvars, gvars, cvars, fvars, evars, avars, yvars>>
  \/ TickJobReturn /\ UNCHANGED <<rvars, gvars, cvars, fvars, evars, avars, yvars>>
  \/ \E t \in Ticks : RunTick(t) /\ UNCHANGED <<rvars, gvars, cvars, fvars, evars, avars, yvars>>
  \/ TickReturn /\ UNCHANGED <<rvars, gvars, cvars, fvars, evars, avars, yvars>>

SpecTick == Init /\ [][TickNext]_vars

(***************************************************************************)
(* Jobs and post-flush callbacks that fail.  The main loop calls a job     *)
(* with callWithErrorHandling(job, null, ErrorCodes.SCHEDULER), which      *)
(* catches what the job throws, hands it to the error handler and returns  *)
(* to the loop.  flushPostFlushCbs calls a callback directly: what it      *)
(* throws leaves flushPostFlushCbs, then the finally block of every        *)
(* flushJobs on the call stack, at the statement that called it.           *)
(***************************************************************************)
\* callWithErrorHandling that lets the failure leave the loop: the finally
\* block of flushJobs follows
callWithErrorHandlingRethrows(s, errors) ==
  [r |-> flushPostFlushCbs([s EXCEPT !.flushIndex = 0, !.queue = <<>>]),
   errors |-> errors]

\* callWithErrorHandling(job, null, ErrorCodes.SCHEDULER) when job has
\* thrown: handleError(err, null, ErrorCodes.SCHEDULER), and the loop goes on
callWithErrorHandling(s, errors) ==
  [r |-> MainLoop([s EXCEPT !.flushIndex = @ + 1]), errors |-> errors + 1]

\* the entries behind the running one
Waiting ==
  {queue[i] : i \in {k \in 1..Len(queue) : k > flushIndex + 1 /\ queue[k] # Null}}

\* the main loop has called the job on top of the stack
NowCalled ==
  IF InMainLoop' /\ flushIndex' # flushIndex THEN {jobStack'[1].job} ELSE {}

FailFlush ==
  /\ FlushJobs(MaxRuns)
  /\ schedErrors' = 0
  /\ owed' = {}

FailReturn ==
  /\ JobReturn(MaxRuns)
  /\ owed' = owed \ NowCalled
  /\ UNCHANGED schedErrors

JobThrows ==
  /\ InMainLoop
  /\ \E c \in {callWithErrorHandling(Sched, schedErrors)} :
       /\ Enter(c.r, <<>>, MaxRuns)
       /\ schedErrors' = c.errors
  /\ owed' = (owed \cup Waiting) \ NowCalled

CbThrows ==
  /\ jobStack # <<>>
  /\ jobStack[1].kind = "post"
  /\ jobStack' = <<>>
  /\ UNCHANGED <<queue, flushIndex, isFlushing, isFlushPending,
                 pendingPostFlushCbs, activePostFlushCbs, postFlushIndex,
                 currentFlushPromise, seen, appErrors, invoked, queuedInFlush>>
  /\ UNCHANGED fvars

FailInvalidate(job) ==
  /\ InvalidateJob(job)
  /\ owed' = IF Includes(queue', job, 0) THEN owed ELSE owed \ {job}
  /\ UNCHANGED schedErrors

\* the jobs of the failure scenario; a body may fail or return
FailJobs == {"j1", "j2", "jn"}

FailNext ==
  \/ \E job \in FailJobs : QueueJob(job, MaxQueue) /\ UNCHANGED <<rvars, gvars, cvars, tvars, fvars, evars, avars, yvars>>
  \/ \E job \in FailJobs : FailInvalidate(job) /\ UNCHANGED <<rvars, gvars, cvars, tvars, evars, avars, yvars>>
  \/ \E cb \in PostCbs : QueuePostFlushCb(cb) /\ UNCHANGED <<rvars, gvars, cvars, tvars, fvars, evars, avars, yvars>>
  \/ FailFlush /\ UNCHANGED <<rvars, gvars, cvars, tvars, evars, avars, yvars>>
  \/ FailReturn /\ UNCHANGED <<rvars, gvars, cvars, tvars, evars, avars, yvars>>
  \/ JobThrows /\ UNCHANGED <<rvars, gvars, cvars, tvars, evars, avars, yvars>>
  \/ CbThrows /\ UNCHANGED <<rvars, gvars, cvars, tvars, evars, avars, yvars>>

SpecFail == Init /\ [][FailNext]_vars

(***************************************************************************)
(* Nested flushes of the post-flush callbacks: the script and the bodies   *)
(* of the callbacks call queuePostFlushCb, and the body of a callback      *)
(* calls flushPostFlushCbs() itself.                                       *)
(***************************************************************************)
NestCbs == {"j1", "j2"}

\* flushPostFlushCbs() called while activePostFlushCbs is set: the pending
\* callbacks are pushed onto it and the call returns
flushPostFlushCbsInside(s) ==
  IF Len(s.pendingPostFlushCbs) > 0
  THEN [s EXCEPT !.pendingPostFlushCbs = <<>>,
                 !.activePostFlushCbs.cbs =
                    @ \o Sort(Dedupe(s.pendingPostFlushCbs), FALSE)]
  ELSE s

InPostCb == IF jobStack = <<>> THEN FALSE ELSE jobStack[Len(jobStack)].kind = "post"

NestQueuePostFlushCb(cb) ==
  /\ Len(pendingPostFlushCbs) < MaxPending
  /\ SetSched(queuePostFlushCb(Sched, cb))
  /\ UNCHANGED <<jobStack, batches>>

FlushPostInside ==
  /\ InPostCb
  /\ Len(activePostFlushCbs.cbs) + Len(pendingPostFlushCbs) <= MaxActive
  /\ SetSched(flushPostFlushCbsInside(Sched))
  /\ batches' = IF Len(pendingPostFlushCbs) > 0
                THEN Append(batches, Len(activePostFlushCbs'.cbs))
                ELSE batches
  /\ UNCHANGED jobStack

\* the loop of flushPostFlushCbs goes on in the array it has, or the array
\* is new, or there is none
ObserveBatches ==
  batches' =
    IF activePostFlushCbs'.isNull THEN <<>>
    ELSE IF /\ ~activePostFlushCbs.isNull
            /\ activePostFlushCbs' = activePostFlushCbs
            /\ postFlushIndex' > postFlushIndex
         THEN batches
         ELSE <<Len(activePostFlushCbs'.cbs)>>

NestNext ==
  \/ \E cb \in NestCbs :
       NestQueuePostFlushCb(cb) /\ UNCHANGED <<rvars, gvars, cvars, tvars, fvars, evars, avars, uvars, pvars, zvars>>
  \/ FlushPostInside /\ UNCHANGED <<rvars, gvars, cvars, tvars, fvars, evars, avars, uvars, pvars, zvars>>
  \/ FlushJobs(MaxRuns) /\ ObserveBatches /\ UNCHANGED <<rvars, gvars, cvars, tvars, fvars, evars, avars, uvars, pvars, zvars>>
  \/ JobReturn(MaxRuns) /\ ObserveBatches /\ UNCHANGED <<rvars, gvars, cvars, tvars, fvars, evars, avars, uvars, pvars, zvars>>

SpecNest == Init /\ [][NestNext]_vars

(***************************************************************************)
(* The readonly wrapper (ReadonlyReactiveHandler) of the plain-object      *)
(* target and of the array target.  The handler has the get trap of        *)
(* BaseReactiveHandler with _isReadonly true, and the set and              *)
(* deleteProperty traps; it has no has and no ownKeys trap.  The script    *)
(* runs the effects; the body of an effect runs effects and accesses the   *)
(* readonly wrappers only.                                                 *)
(***************************************************************************)
NoTrack == UNCHANGED <<depSubs, depsMap, deps, depsLength>>

\* the function that the get trap returns for the key 'hasOwnProperty',
\* called with the key k: track(toRaw(this), HAS, k)
hasOwnProperty(k) == CanTrack(k) /\ track(k)

\* BaseReactiveHandler.get for a key that is not 'hasOwnProperty' and, when
\* the wrapper is readonly, any key of an array
BaseGet(isReadonly, k) ==
  IF ~isReadonly THEN CanTrack(k) /\ track(k) ELSE NoTrack

RoFrame ==
  UNCHANGED <<active, trackId, runnings, shouldSchedule, dirtyLevel,
              allowRecurse, activeEffect, shouldTrack, trackStack,
              pauseScheduleStack, queueEffectSchedulers, obj, stack>>

\* ro.k
RoGet(k) == stack # <<>> /\ BaseGet(TRUE, k) /\ RoFrame

\* k in ro, Object.keys(ro): the proxy has no trap for them
RoHas(k) == stack # <<>> /\ NoTrack /\ RoFrame

RoOwnKeys == stack # <<>> /\ NoTrack /\ RoFrame

\* ro.hasOwnProperty(k): the get trap gives the function, user code calls it
RoHasOwnProperty(k) == stack # <<>> /\ hasOwnProperty(k) /\ RoFrame

\* roArray.includes(x): the get trap gives Array.prototype.includes, which
\* reads 'length' and the indices through the get trap
RoIncludes ==
  /\ stack # <<>>
  /\ BaseGet(TRUE, "length")
  /\ BaseGet(TRUE, "1")
  /\ RoFrame

ReadonlyNext ==
  \/ \E e \in Effects : Runner(e) /\ UNCHANGED <<gvars, svars, cvars, xvars>>
  \/ FnReturn /\ UNCHANGED <<gvars, svars, cvars, xvars>>
  \/ \E k \in Keys : RoGet(k) /\ UNCHANGED <<gvars, svars, cvars, xvars>>
  \/ \E k \in Keys : RoHas(k) /\ UNCHANGED <<gvars, svars, cvars, xvars>>
  \/ RoOwnKeys /\ UNCHANGED <<gvars, svars, cvars, xvars>>
  \/ \E k \in Keys : RoHasOwnProperty(k) /\ UNCHANGED <<gvars, svars, cvars, xvars>>
  \/ RoIncludes /\ UNCHANGED <<gvars, svars, cvars, xvars>>

SpecReadonly == Init /\ [][ReadonlyNext]_vars

(***************************************************************************)
(* flushPreFlushCbs(): the script and the body of a job of the main queue  *)
(* call it without arguments; the bodies of the jobs, those of the pre     *)
(* jobs that its loop calls included, call queueJob.                       *)
(*   for (; i < queue.length; i++) {                                       *)
(*     const cb = queue[i]                                                 *)
(*     if (cb && cb.pre) {                                                 *)
(*       if (__DEV__ && checkRecursiveUpdates(seen!, cb)) continue         *)
(*       queue.splice(i, 1); i--; cb()                                     *)
(*     }                                                                   *)
(*   }                                                                     *)
(* The loop is followed from index i, with the CountMap ps of the call,    *)
(* until it calls a pre job (enter; i is then the index after the          *)
(* decrement) or ends (enter is Null).                                     *)
(***************************************************************************)
PreJobs == {"j1", "j2", "j2p", "jnp"}

\* a loop without the decrement of i that follows the splice
RECURSIVE PreLoopNoDecrement(_, _, _)
PreLoopNoDecrement(s, ps, i) ==
  IF i < Len(s.queue)
  THEN LET cb == s.queue[i + 1] IN
       IF JobPre(cb)
       THEN LET c == checkRecursiveUpdates([s EXCEPT !.seen = ps], cb)
                s1 == [c.s EXCEPT !.seen = s.seen]
            IN IF c.skip
               THEN PreLoopNoDecrement(s1, c.s.seen, i + 1)
               ELSE [s |-> [s1 EXCEPT !.queue = RemoveAt(@, i)],
                     ps |-> c.s.seen, enter |-> cb, i |-> i]
       ELSE PreLoopNoDecrement(s, ps, i + 1)
  ELSE [s |-> s, ps |-> ps, enter |-> Null, i |-> i]

RECURSIVE PreLoop(_, _, _)
PreLoop(s, ps, i) ==
  IF i < Len(s.queue)
  THEN LET cb == s.queue[i + 1] IN
       IF JobPre(cb)
       THEN LET c == checkRecursiveUpdates([s EXCEPT !.seen = ps], cb)
                s1 == [c.s EXCEPT !.seen = s.seen]
            IN IF c.skip
               THEN PreLoop(s1, c.s.seen, i + 1)
               ELSE [s |-> [s1 EXCEPT !.queue = RemoveAt(@, i)],
                     ps |-> c.s.seen, enter |-> cb, i |-> i - 1]
       ELSE PreLoop(s, ps, i + 1)
  ELSE [s |-> s, ps |-> ps, enter |-> Null, i |-> i]

\* the default value of the parameter i
PreStart == IF isFlushing THEN flushIndex + 1 ELSE 0

\* a pre job called by the loop of flushPreFlushCbs is running
InPreCb == IF jobStack = <<>> THEN FALSE ELSE jobStack[Len(jobStack)].kind = "pre"

EnterPre(r, base) ==
  /\ IF r.enter = Null THEN TRUE ELSE r.ps[r.enter] <= MaxRuns
  /\ SetSched(r.s)
  /\ preSeen' = r.ps
  /\ preI' = r.i
  /\ jobStack' = IF r.enter = Null THEN base
                 ELSE Append(base, [job |-> r.enter, kind |-> "pre"])

\* flushPreFlushCbs() called by the script or by the body of a job
FlushPreFlushCbs ==
  /\ IF jobStack = <<>> THEN TRUE ELSE jobStack[Len(jobStack)].kind = "job"
  /\ \E r \in {PreLoop(Sched, NewMap, PreStart)} : EnterPre(r, jobStack)
  /\ bypassed' = {}

\* the body of a pre job returns to the loop of flushPreFlushCbs
PreReturn ==
  /\ InPreCb
  /\ \E r \in {PreLoop(Sched, preSeen, preI + 1)} : EnterPre(r, Pop(jobStack))
  /\ UNCHANGED bypassed

PreQueueJob(job) ==
  /\ QueueJob(job, MaxQueue)
  /\ bypassed' = IF /\ InPreCb
                    /\ QueueJobInserts(Sched, job)
                    /\ InsertionIndex(Sched, job) <= preI
                 THEN bypassed \cup {job}
                 ELSE bypassed
  /\ UNCHANGED <<preI, preSeen>>

PreNext ==
  \/ \E job \in PreJobs :
       PreQueueJob(job) /\ UNCHANGED <<rvars, gvars, cvars, tvars, fvars, evars, avars, nvars, uvars, zvars>>
  \/ FlushPreFlushCbs /\ UNCHANGED <<rvars, gvars, cvars, tvars, fvars, evars, avars, nvars, uvars, zvars>>
  \/ PreReturn /\ UNCHANGED <<rvars, gvars, cvars, tvars, fvars, evars, avars, nvars, uvars, zvars>>
  \/ FlushJobs(MaxRuns) /\ UNCHANGED <<rvars, gvars, cvars, xvars>>
  \/ ~InPreCb /\ JobReturn(MaxRuns) /\ UNCHANGED <<rvars, gvars, cvars, xvars>>

SpecPre == Init /\ [][PreNext]_vars

(***************************************************************************)
(* trigger(target, type, key, newValue): the deps it collects, for a plain *)
(* object, an array and a Map.  A depsMap has at most one dep for a key,   *)
(* so a dep is named by its key; dm is the set of the keys of depsMap.     *)
(* The script makes targets, tracks keys of the target (each track of a    *)
(* key that has no dep makes the dep) and calls trigger as the handlers    *)
(* do.                                                                     *)
(***************************************************************************)
MAP_KEY_ITERATE_KEY == "mapKeyIterate"
Kinds == {"object", "array", "map"}
TriggerOpTypes == {"set", "add", "delete", "clear"}

\* the keys that have a dep in the depsMap of a target
KindKeys(kind) ==
  IF kind = "array" THEN {"1", "length", "a"}
  ELSE IF kind = "map" THEN {"a", "b", ITERATE_KEY, MAP_KEY_ITERATE_KEY}
  ELSE {"a", "b", ITERATE_KEY}

\* the keys that a trigger call names
TriggerKeys(kind) == KindKeys(kind) \ {ITERATE_KEY, MAP_KEY_ITERATE_KEY}

isIntegerKey(key) == key = "1"

\* depsMap.get(key) pushed on deps; an undefined entry is skipped by the
\* loop that calls triggerEffects
PushDep(ds, dm, key) == IF key \in dm THEN Append(ds, key) ELSE ds

\* a trigger that does not push the dep of MAP_KEY_ITERATE_KEY
CollectDepsNoMapKey(kind, type, key, newValue, dm) ==
  IF type = "clear" THEN dm
  ELSE IF key = "length" /\ kind = "array"
  THEN {k \in dm : k = "length" \/ KeyAtLeast(k, newValue)}
  ELSE LET d0 == IF key # Undefined THEN PushDep(<<>>, dm, key) ELSE <<>>
           d1 == IF type = "add"
                 THEN IF kind # "array" THEN PushDep(d0, dm, ITERATE_KEY)
                      ELSE IF isIntegerKey(key) THEN PushDep(d0, dm, "length")
                      ELSE d0
                 ELSE IF type = "delete"
                 THEN IF kind # "array" THEN PushDep(d0, dm, ITERATE_KEY) ELSE d0
                 ELSE IF kind = "map" THEN PushDep(d0, dm, ITERATE_KEY) ELSE d0
       IN {d1[i] : i \in 1..Len(d1)}

\* the keys of the deps that trigger passes to triggerEffects
CollectDeps(kind, type, key, newValue, dm) ==
  IF type = "clear" THEN dm
  ELSE IF key = "length" /\ kind = "array"
  THEN {k \in dm : k = "length" \/ KeyAtLeast(k, newValue)}
  ELSE LET d0 == IF key # Undefined THEN PushDep(<<>>, dm, key) ELSE <<>>
           iter(ds) ==
             LET d == PushDep(ds, dm, ITERATE_KEY) IN
             IF kind = "map" THEN PushDep(d, dm, MAP_KEY_ITERATE_KEY) ELSE d
           d1 == IF type = "add"
                 THEN IF kind # "array" THEN iter(d0)
                      ELSE IF isIntegerKey(key) THEN PushDep(d0, dm, "length")
                      ELSE d0
                 ELSE IF type = "delete"
                 THEN IF kind # "array" THEN iter(d0) ELSE d0
                 ELSE IF kind = "map" THEN PushDep(d0, dm, ITERATE_KEY) ELSE d0
       IN {d1[i] : i \in 1..Len(d1)}

\* reactive(target) of another target: its depsMap has no key yet
NewTarget(kind) ==
  /\ tdm' = [kind |-> kind, keys |-> {}]
  /\ UNCHANGED tout

\* track(target, type, key) inside an effect: depsMap.set(key, createDep())
TrackKey(key) ==
  /\ key \in KindKeys(tdm.kind) \ tdm.keys
  /\ tdm' = [tdm EXCEPT !.keys = @ \cup {key}]
  /\ UNCHANGED tout

\* the trigger calls that the handlers make: CLEAR has no key; the key
\* 'length' of an array is an own property that cannot be deleted, so it
\* comes with SET
Triggerable(kind, type, key) ==
  IF type = "clear" THEN key = Undefined
  ELSE /\ key \in TriggerKeys(kind)
       /\ (kind = "array" /\ key = "length") => type = "set"

Trigger(type, key, newValue) ==
  /\ Triggerable(tdm.kind, type, key)
  /\ tout' = [kind |-> tdm.kind, type |-> type, key |-> key, newValue |-> newValue,
              keys |-> tdm.keys,
              fired |-> CollectDeps(tdm.kind, type, key, newValue, tdm.keys)]
  /\ UNCHANGED tdm

TriggerNext ==
  \/ \E kind \in Kinds :
       NewTarget(kind) /\ UNCHANGED <<rvars, gvars, svars, cvars, tvars, fvars, evars, avars, nvars, uvars, pvars, wvars, lvars>>
  \/ \E key \in {"a", "b", "1", "length", ITERATE_KEY, MAP_KEY_ITERATE_KEY} :
       TrackKey(key) /\ UNCHANGED <<rvars, gvars, svars, cvars, tvars, fvars, evars, avars, nvars, uvars, pvars, wvars, lvars>>
  \/ \E type \in TriggerOpTypes, key \in {"a", "b", "1", "length", Undefined},
        newValue \in 0..MaxLen :
       Trigger(type, key, newValue) /\ UNCHANGED <<rvars, gvars, svars, cvars, tvars, fvars, evars, avars, nvars, uvars, pvars, wvars, lvars>>

SpecTrigger == Init /\ [][TriggerNext]_vars

(***************************************************************************)
(* Writes through the mutable wrapper of the plain object: the top level   *)
(* script runs the effects, writes the key "a", with the value it holds or *)
(* with another one, and deletes it; the body of an effect reads the key   *)
(* and enumerates the keys (ownKeys).                                      *)
(***************************************************************************)
\* dep.get(effect) === effect._trackId for the dep of the key
Subscribed(e, key) ==
  /\ depsMap[key] # NoDep
  /\ \E i \in 1..Len(depSubs[depsMap[key]]) :
       /\ depSubs[depsMap[key]][i].eff = e
       /\ depSubs[depsMap[key]][i].id = trackId[e]

Idle(e) == dirtyLevel[e] = NotDirty

ObserveWrite(key, same) ==
  /\ wrote' = [n |-> 1 - wrote.n, key |-> key, same |-> same]
  /\ UNCHANGED <<gvars, svars, cvars, tvars, fvars, evars, avars, nvars, uvars, pvars, kvars, lvars>>

WriteNext ==
  \/ /\ stack = <<>>
     /\ \E e \in Effects : Runner(e) /\ UNCHANGED <<gvars, svars, cvars, xvars>>
  \/ FnReturn /\ UNCHANGED <<gvars, svars, cvars, xvars>>
  \/ stack # <<>> /\ ProxyGet("a") /\ UNCHANGED <<gvars, svars, cvars, xvars>>
  \/ stack # <<>> /\ ProxyOwnKeys /\ UNCHANGED <<gvars, svars, cvars, xvars>>
  \/ /\ stack = <<>>
     /\ \E same \in BOOLEAN : ProxySet("a", same) /\ ObserveWrite("a", same)
  \/ stack = <<>> /\ ProxyDelete("a") /\ UNCHANGED <<gvars, svars, cvars, xvars>>

SpecWrite == Init /\ [][WriteNext]_vars

(***************************************************************************)
(* The scheduler with the record of the work it has accepted.  The script, *)
(* the body of a job and the body of a post-flush callback queue and       *)
(* cancel the jobs j1 and j2 and queue the callback; within a flush a job  *)
(* or callback is queued until the flush has called it MaxRuns times, so   *)
(* no flush reaches the recursion limit.  The body of a job or callback    *)
(* returns, and the microtask of a pending flush runs: a microtask that    *)
(* the promise job queue holds is run by the host.                         *)
(***************************************************************************)
LiveJobs == {"j1", "j2"}

\* the job whose body the step has entered from the main loop, and the
\* callback whose body it has entered from the loop of flushPostFlushCbs
CalledJobs ==
  IF jobStack' # <<>> /\ jobStack'[Len(jobStack')].kind = "job"
  THEN {jobStack'[Len(jobStack')].job} ELSE {}

CalledCbs ==
  IF jobStack' # <<>> /\ jobStack'[Len(jobStack')].kind = "post"
  THEN {jobStack'[Len(jobStack')].job} ELSE {}

LiveQueueJob(job) ==
  /\ jobStack # <<>> => seen[job] < MaxRuns
  /\ QueueJob(job, MaxQueue)
  /\ waiting' = [waiting EXCEPT !.jobs = IF queue' # queue THEN @ \cup {job} ELSE @]

LiveInvalidateJob(job) ==
  /\ InvalidateJob(job)
  /\ waiting' = [waiting EXCEPT !.jobs = IF queue' # queue THEN @ \ {job} ELSE @]

LiveQueuePostFlushCb(cb) ==
  /\ jobStack # <<>> => seen[cb] < MaxRuns
  /\ QueuePostFlushCb(cb)
  /\ waiting' = [waiting EXCEPT
                   !.cbs = IF pendingPostFlushCbs' # pendingPostFlushCbs
                           THEN @ \cup {cb} ELSE @]

LiveFlush ==
  /\ FlushJobs(RECURSION_LIMIT + 2)
  /\ waiting' = [jobs |-> waiting.jobs \ CalledJobs, cbs |-> waiting.cbs \ CalledCbs]
  /\ UNCHANGED <<rvars, gvars, cvars, tvars, fvars, evars, avars, nvars, uvars, pvars, kvars, wvars>>

LiveReturn ==
  /\ JobReturn(RECURSION_LIMIT + 2)
  /\ waiting' = [jobs |-> waiting.jobs \ CalledJobs, cbs |-> waiting.cbs \ CalledCbs]
  /\ UNCHANGED <<rvars, gvars, cvars, tvars, fvars, evars, avars, nvars, uvars, pvars, kvars, wvars>>

LiveNext ==
  \/ \E job \in LiveJobs :
       /\ LiveQueueJob(job)
       /\ UNCHANGED <<rvars, gvars, cvars, tvars, fvars, evars, avars, nvars, uvars, pvars, kvars, wvars>>
  \/ \E job \in LiveJobs :
       /\ LiveInvalidateJob(job)
       /\ UNCHANGED <<rvars, gvars, cvars, tvars, fvars, evars, avars, nvars, uvars, pvars, kvars, wvars>>
  \/ \E cb \in PostCbs :
       /\ LiveQueuePostFlushCb(cb)
       /\ UNCHANGED <<rvars, gvars, cvars, tvars, fvars, evars, avars, nvars, uvars, pvars, kvars, wvars>>
  \/ LiveFlush
  \/ LiveReturn

\* LiveReturn can take a step exactly when user code of a flush is running:
\* the loop that gets control back goes on to a state that differs
ReturnEnabled == jobStack # <<>>

ReturnCanStep ==
  \E r \in {IF jobStack[Len(jobStack)].kind = "job"
             THEN MainLoop([Sched EXCEPT !.flushIndex = @ + 1])
             ELSE PostLoop([Sched EXCEPT !.postFlushIndex = @ + 1])} :
    /\ IF r.enter = Null THEN TRUE ELSE r.s.seen[r.enter] <= RECURSION_LIMIT + 2
    /\ \/ r.s # Sched
       \/ r.enter = Null
       \/ Append(Pop(jobStack), [job |-> r.enter, kind |-> r.kind]) # jobStack

\* weak fairness of LiveFlush and of LiveReturn, the latter written with
\* its enabling condition
SpecLive ==
  /\ Init
  /\ [][LiveNext]_vars
  /\ WF_vars(LiveFlush)
  /\ ([]<>(~ReturnEnabled) \/ []<><<LiveReturn>>_vars)

(***************************************************************************)
(* Recursive updates in development mode (__DEV__): the job j1, which      *)
(* allows recursion, is queued and cancelled by the script, by its own     *)
(* body and by a post-flush callback, and a flush calls it as often as     *)
(* checkRecursiveUpdates lets it; the post-flush callback is queued until  *)
(* the flush has called it MaxRuns times.  The body of a job returns, and  *)
(* the microtask of a pending flush runs when the script has ended.        *)
(***************************************************************************)
RecursiveJobs == {"j1"}

RecursionFlush == FlushJobs(RECURSION_LIMIT + 2) /\ UNCHANGED <<rvars, gvars, cvars, xvars>>

RecursionReturn == JobReturn(RECURSION_LIMIT + 2) /\ UNCHANGED <<rvars, gvars, cvars, xvars>>

RecursionNext ==
  \/ \E job \in RecursiveJobs :
       QueueJob(job, RECURSION_LIMIT + 3) /\ UNCHANGED <<rvars, gvars, cvars, xvars>>
  \/ \E job \in RecursiveJobs :
       InvalidateJob(job) /\ UNCHANGED <<rvars, gvars, cvars, xvars>>
  \/ \E cb \in PostCbs :
       /\ seen[cb] < MaxRuns
       /\ QueuePostFlushCb(cb)
       /\ UNCHANGED <<rvars, gvars, cvars, xvars>>
  \/ FlushJobs(RECURSION_LIMIT + 2) /\ UNCHANGED <<rvars, gvars, cvars, xvars>>
  \/ JobReturn(RECURSION_LIMIT + 2) /\ UNCHANGED <<rvars, gvars, cvars, xvars>>

SpecRecursion ==
  /\ Init
  /\ [][RecursionNext]_vars
  /\ WF_vars(RecursionFlush)
  /\ WF_vars(RecursionReturn)

(***************************************************************************)
(* C1.  When run() returns on an effect that is active, deps.length equals *)
(* _depsLength, every dep in deps maps the effect to its current _trackId, *)
(* and no Dep object outside deps contains the effect.                     *)
(***************************************************************************)
DepsOf(e) == {deps[e][i] : i \in 1..Len(deps[e])}

RunPostState(e) ==
  /\ Len(deps[e]) = depsLength[e]
  /\ \A d \in DepsOf(e) : Live(depSubs[d], e, trackId[e])
  /\ \A d \in DepIds \ DepsOf(e) : ~DepHas(depSubs[d], e)

\* run() of an effect that is active returns to its caller
RunReturns(e) ==
  /\ FnReturn
  /\ stack' = Pop(stack)
  /\ Top.e = e
  /\ Top.act
  /\ active[e]

C1_RunPostState ==
  [][\A e \in Effects : RunReturns(e) => RunPostState(e)']_vars

\* a second run of e1 has returned after a switch of keys, e2 subscribed too
C1_Witness ==
  /\ stack = <<>>
  /\ active["e1"] /\ trackId["e1"] = 2
  /\ active["e2"] /\ trackId["e2"] >= 1
  /\ Len(deps["e1"]) = 1
  /\ \E d \in DepsOf("e1") : depKey(d) = "b" /\ DepHas(depSubs[d], "e2")
  /\ depsMap["a"] # NoDep

(***************************************************************************)
(* C2.  effect() with the default scheduler, the effect active and not     *)
(* running: after a change of a key that the effect read in its latest     *)
(* run, fn has been executed again by the time the outermost trigger /     *)
(* resetScheduling call returns -- at least once.  (The claim says exactly *)
(* once: C2_RerunExactlyOnce.)                                             *)
(***************************************************************************)
\* the outermost trigger / resetScheduling call returns
Returns == ~Quiescent /\ Quiescent'

\* a change that an effect has to react to does not return at once
ChangeStartsWork ==
  \A k \in Keys, e \in Effects :
    (Quiescent /\ ProxySet(k, FALSE) /\ Opens(e, k)) => ~Quiescent'

Count(q, e) == Cardinality({i \in 1..Len(q) : q[i] = e})

C3_StoppedUnsubscribed ==
  \A e \in Effects :
    ~active[e] => /\ \A d \in DepIds : ~DepHas(depSubs[d], e)
                  /\ Count(queueEffectSchedulers, e) = 0

(***************************************************************************)
(* C4.  A change of a key that an effect read in an earlier run but not in *)
(* its latest run does not push the effect's scheduler and does not enter  *)
(* its fn.                                                                 *)
(***************************************************************************)
C4_StaleKeyNotScheduled ==
  [][\A k \in Keys, e \in Effects :
       (ProxySet(k, FALSE) /\ k \in everRead[e] \ epochReads[e])
         => /\ Count(queueEffectSchedulers', e) <= Count(queueEffectSchedulers, e)
            /\ Count(queueEffectSchedulers, e) = 0 => SetStarts(k, FALSE) # e]_vars

\* e1 read a, then only b; a write of a at the top level has started e2,
\* which read only a, and has left e1 alone
C4_Witness ==
  /\ Len(stack) = 1
  /\ Top.e = "e2" /\ Top.ret = "drain"
  /\ depsLength["e2"] = 0
  /\ Len(deps["e2"]) = 1 /\ depKey(deps["e2"][1]) = "a"
  /\ everRead["e1"] = {"a", "b"}
  /\ epochReads["e1"] = {"b"}
  /\ active["e1"] /\ dirtyLevel["e1"] = NotDirty
  /\ queueEffectSchedulers = <<>>

(***************************************************************************)
(* C5.  Between pauseScheduling() and the matching resetScheduling(), as   *)
(* long as an effect has not run, its scheduler is pushed at most once     *)
(* (the buffer is empty when the script calls pauseScheduling).            *)
(***************************************************************************)
C5_PushedOncePerBatch ==
  \A e \in Effects :
    (pauseScheduleStack > 0 /\ ~ranInBatch[e])
      => Count(queueEffectSchedulers, e) <= 1

\* e1 read a and b, e2 read b: a then b were written in the batch, the
\* write of b pushed e2 and did not push e1 again
C5_Witness ==
  /\ pauseScheduleStack > 0
  /\ ~ranInBatch["e1"] /\ ~ranInBatch["e2"]
  /\ queueEffectSchedulers = <<"e1", "e2">>
  /\ epochReads["e1"] = {"a", "b"}
  /\ epochReads["e2"] = {"b"}

(***************************************************************************)
(* C6.  While the main loop of flushJobs runs and queueJob has added       *)
(* nothing since the flush began, the jobs it has called so far were       *)
(* called in ascending id order, a job without id counting as Infinity,    *)
(* and at equal id a pre job before a job that is not pre.                 *)
(***************************************************************************)
\* a may run before b in the order by (id, pre)
InOrder(a, b) ==
  \/ getId(a) < getId(b)
  \/ getId(a) = getId(b) /\ (JobPre(b) => JobPre(a))

\* the jobs the main loop has called, the running one last
Called == SubSeq(queue, 1, flushIndex + 1)

C6_InitialQueueInOrder ==
  (InMainLoop /\ ~queuedInFlush)
    => \A p, q \in 1..Len(Called) : p < q => InOrder(Called[p], Called[q])

(***************************************************************************)
(* C7.  As claimed: while the main loop of flushJobs runs, every two jobs  *)
(* it has called, of which at least one has an id, were called in the      *)
(* order by (id, pre), whether or not they were queued during the flush.   *)
(* As the code has it: when the main loop calls a job, that job and the    *)
(* jobs waiting behind it in the queue are in ascending id order, and      *)
(* among those with the same id no job that is not pre comes before a pre  *)
(* job.                                                                    *)
(***************************************************************************)
HasId(a, b) == ~IdIsNull(a) \/ ~IdIsNull(b)

C7_CalledPairsInOrder ==
  InMainLoop
    => \A p, q \in 1..Len(Called) :
         (p < q /\ HasId(Called[p], Called[q])) => InOrder(Called[p], Called[q])

\* the running job and the jobs behind it
FromRunning == SubSeq(queue, flushIndex + 1, Len(queue))

CallsJob == (FlushJobs(MaxRuns) \/ JobReturn(MaxRuns)) /\ InMainLoop'

C7_CalledBeforeWaiting ==
  [][CallsJob =>
       (\A p, q \in 1..Len(FromRunning) :
          (p < q /\ HasId(FromRunning[p], FromRunning[q]))
            => InOrder(FromRunning[p], FromRunning[q]))']_vars

\* the running job was queued during the flush and has a lower id than the
\* job called before it; another job waits behind it
C7_Witness ==
  /\ InMainLoop
  /\ queuedInFlush
  /\ flushIndex >= 1
  /\ getId(queue[flushIndex + 1]) < getId(queue[flushIndex])
  /\ Len(queue) > flushIndex + 1

(***************************************************************************)
(* C8.  As claimed: a call of queueJob that puts the job in the queue puts *)
(* it at an index above flushIndex.  As the code has it: it does so when   *)
(* the queue is not empty, which it never is while the main loop of        *)
(* flushJobs runs a job; into the empty queue the job goes at index 0,     *)
(* which flushIndex equals.                                                *)
(***************************************************************************)
\* queueJob(job) has put the job at an index above flushIndex
InsertedAbove(job) ==
  \E i \in (flushIndex + 1)..Len(queue) : queue' = Splice(queue, i, job)

Queues(job) == QueueJob(job, MaxQueue) /\ QueueJobInserts(Sched, job)

C8_InsertsAboveFlushIndex ==
  [][\A job \in Jobs : Queues(job) => InsertedAbove(job)]_vars

C8_InsertsAboveWhenNotEmpty ==
  [][\A job \in Jobs :
       (Queues(job) /\ Len(queue) > 0) => InsertedAbove(job)]_vars

\* during the flush a job with a lower id than the running job's has been
\* put right behind the running job
C8_Witness ==
  /\ InMainLoop
  /\ queuedInFlush
  /\ Len(queue) > flushIndex + 1
  /\ getId(queue[flushIndex + 2]) < getId(queue[flushIndex + 1])
  /\ invoked[queue[flushIndex + 2]] = 0

(***************************************************************************)
(* C9.  The main loop of flushJobs calls no job that invalidateJob was     *)
(* called on while the job sat in the queue and had not been started,      *)
(* unless queueJob was called on the job after that.                       *)
(***************************************************************************)
CancelCallsJob == (FlushJobs(MaxRuns) \/ JobReturn(MaxRuns)) /\ InMainLoop'

C9_CancelledNotCalled ==
  [][CancelCallsJob => queue'[flushIndex' + 1] \notin cancelled]_vars

(***************************************************************************)
(* C10.  In development mode the main loop of flushJobs calls no job more  *)
(* than RECURSION_LIMIT + 1 = 101 times in one flush, the flushes that     *)
(* flushJobs starts itself included; when the job next in the queue has    *)
(* been called 101 times the loop reports one error with code             *)
(* APP_ERROR_HANDLER and does not call it; an error is reported only for a *)
(* job that has been called 101 times; and a flush comes to its end, with  *)
(* the queue empty and isFlushing false.                                   *)
(***************************************************************************)
\* the main loop is at job's 102nd call
AtLimit(job) ==
  /\ InMainLoop
  /\ Len(queue) > flushIndex + 1
  /\ queue[flushIndex + 2] = job
  /\ invoked[job] = RECURSION_LIMIT + 1

Calls(job) == jobStack = <<[job |-> job, kind |-> "job"]>>

FlushEnded == jobStack = <<>> /\ ~isFlushing /\ queue = <<>>

C10_RecursionLimit ==
  /\ [](\A job \in Jobs : invoked[job] <= RECURSION_LIMIT + 1)
  /\ [][\A job \in Jobs :
          (AtLimit(job) /\ RecursionReturn)
            => appErrors' = appErrors + 1 /\ ~Calls(job)']_vars
  /\ [][appErrors' > appErrors
          => \E job \in Jobs : Pending(job) /\ invoked[job] = RECURSION_LIMIT + 1]_vars
  /\ []((jobStack = <<>> /\ ~isFlushPending) => FlushEnded)
  /\ (isFlushing ~> FlushEnded)

\* a flush has ended in which j1 was called 101 times and turned down, and
\* was queued by the post-flush callback and turned down again in the flush
\* that flushJobs started itself
C10_Witness ==
  /\ FlushEnded
  /\ ~isFlushPending
  /\ appErrors = 2

(***************************************************************************)
(* C11.  A post-flush callback that a job of the main queue has registered *)
(* is called only when the main loop of that flushJobs call has called     *)
(* every job of the queue, the jobs queued during the loop included: when  *)
(* the callback is called out of the main loop, no job waits behind the    *)
(* job that has just returned, and the callback never runs inside a job.   *)
(***************************************************************************)
\* the step calls the post-flush callback cb
CallsPost(cb) ==
  /\ FlushJobs(MaxRuns) \/ JobReturn(MaxRuns)
  /\ jobStack' = <<[job |-> cb, kind |-> "post"]>>

\* the main loop has no job left to call
MainLoopDone == InMainLoop => flushIndex + 1 = Len(queue)

C11_PostAfterMainJobs ==
  [][\A cb \in PostCbs :
       (CallsPost(cb) /\ cb \in registered)
         => MainLoopDone /\ flushIndex' = 0 /\ isFlushing']_vars

\* the callback jn, registered by a job, runs after j1 and j2 have been
\* called, one of them queued during the flush
C11_Witness ==
  /\ jobStack = <<[job |-> "jn", kind |-> "post"]>>
  /\ "jn" \in registered
  /\ queuedInFlush
  /\ invoked["j1"] >= 1
  /\ invoked["j2"] >= 1

FlushCompleted ==
  /\ ~isFlushing
  /\ flushIndex = 0
  /\ activePostFlushCbs.isNull
  /\ (currentFlushPromise = Null => ~isFlushPending)

LateTickAfterFlush ==
  \A t \in Ticks :
    (RunTick(t) /\ ticks[t] # "early") => (ticks[t] = "done" /\ FlushCompleted)

EarlyTickBeforeFlush ==
  TickFlush => (\A u \in Ticks : ticks[u] # "early")

(***************************************************************************)
(* C12: the fn of a nextTick(fn) that was called while a flush was pending *)
(* or in progress starts only when that flush has completed: flushJobs has *)
(* returned since the call, with its queued jobs, its post-flush callbacks *)
(* and its follow-up iterations behind it, so that the scheduler is idle   *)
(* or has only a later flush pending.  And when flushJobs starts, no fn of *)
(* a nextTick(fn) that was called before the first queueJob of the tick,   *)
(* with no flush pending or in progress, is still waiting: it has run.     *)
(***************************************************************************)
C12_NextTickAroundFlush ==
  [][LateTickAfterFlush /\ EarlyTickBeforeFlush]_vars

C12_Witness ==
  /\ jobStack = <<[job |-> "t1", kind |-> "tick"]>>
  /\ ticks["t1"] = "done"
  /\ ticks["t2"] = "early"
  /\ FlushCompleted

(***************************************************************************)
(* C13: when a job of the main queue fails during flushJobs, the failure   *)
(* is handed to the error handler with the code SCHEDULER, once, and the   *)
(* flush goes on: every job that waited behind the failing one is called   *)
(* by the main loop of the same flush, unless it is invalidated first; as  *)
(* long as one of them has not been called, that loop is running and the   *)
(* job waits in its queue.                                                 *)
(***************************************************************************)
C13_FailingJobHandled ==
  /\ [][JobThrows => schedErrors' = schedErrors + 1]_vars
  /\ [](owed # {} => (InMainLoop /\ owed \subseteq Waiting))

C13_Witness ==
  /\ InMainLoop
  /\ schedErrors = 1
  /\ invoked["j1"] = 1
  /\ jobStack[1].job = "j2"
  /\ owed = {"jn"}

(***************************************************************************)
(* C20: a failure in the scheduler never leaves it stuck: when the flush   *)
(* is over and none of its jobs or callbacks is running, isFlushing is     *)
(* false and activePostFlushCbs is cleared, whether or not a main job, a   *)
(* pre job or a post-flush callback has failed in it.                      *)
(***************************************************************************)
C20_NeverStuck ==
  jobStack = <<>> => (~isFlushing /\ activePostFlushCbs.isNull)

(***************************************************************************)
(* C14: whether fn returns or fails, when run() of an effect that is       *)
(* active gives control back, the post-cleanup has been done (deps is cut  *)
(* to _depsLength and each dep in it holds the effect at its _trackId),    *)
(* and activeEffect, shouldTrack and _runnings are what they were before   *)
(* the run; so that when the effect ran nested in the fn of an active      *)
(* effect, that enclosing effect is the active one again, and a tracked    *)
(* read that its fn makes after a nested run has failed subscribes the     *)
(* enclosing effect.                                                       *)
(***************************************************************************)
RunExits(e) ==
  /\ FnReturn \/ FnThrows
  /\ stack' = Pop(stack)
  /\ Top.e = e
  /\ Top.act

Enclosing == stack[Len(stack) - 1]

ExitRestores(e) ==
  /\ Len(deps'[e]) = depsLength'[e]
  /\ \A i \in 1..Len(deps'[e]) : Live(depSubs'[deps'[e][i]], e, trackId'[e])
  /\ activeEffect' = Top.le
  /\ shouldTrack' = Top.lst
  /\ runnings'[e] = runnings[e] - 1
  /\ (Len(stack) > 1 /\ Enclosing.act) => activeEffect' = Enclosing.e

ReadAfterFailure(k) ==
  /\ lastExit = "throw"
  /\ stack # <<>>
  /\ ProxyGet(k)
  /\ Top.act
  /\ shouldTrack

C14_RunExitRestores ==
  [][/\ \A e \in Effects : RunExits(e) => ExitRestores(e)
     /\ \A k \in Keys :
          ReadAfterFailure(k)
            => (depsMap'[k] # NoDep /\ Live(depSubs'[depsMap'[k]], Top.e, trackId[Top.e]))]_vars

\* fn of e2 has failed inside fn of e1, which has then read key b
C14_Witness ==
  /\ lastExit = "throw"
  /\ Len(stack) = 1
  /\ stack[1].e = "e1"
  /\ stack[1].act
  /\ activeEffect = "e1"
  /\ trackId["e2"] >= 1
  /\ depsMap["b"] # NoDep
  /\ Live(depSubs[depsMap["b"]], "e1", trackId["e1"])
  /\ ~DepHas(depSubs[depsMap["b"]], "e2")

(***************************************************************************)
(* C15: while the pause depth is greater than 0 no buffered scheduler is   *)
(* invoked: a step that leaves the depth above 0 only appends to the       *)
(* buffer.  When resetScheduling() has brought the depth to 0, its loop    *)
(* invokes the buffered schedulers in the order they were enqueued: the    *)
(* effect it runs is the first one in the buffer that is dirty, the        *)
(* schedulers enqueued before it have been invoked and the ones enqueued   *)
(* after it wait in their order; and when the outermost resetScheduling()  *)
(* has returned the buffer is empty.                                       *)
(***************************************************************************)
IsPrefix(p, q) == Len(p) <= Len(q) /\ SubSeq(q, 1, Len(p)) = p

\* the loop of resetScheduling() starts or goes on, with nothing pushed first
LoopStep == ResetScheduling \/ (FnReturn /\ Top.ret = "drain")

FifoStep ==
  LET q == queueEffectSchedulers
      base == IF stack = <<>> THEN 0 ELSE IF Top.ret = "drain" /\ FnReturn THEN Len(stack) - 1 ELSE Len(stack)
  IN IF Len(stack') > base
     THEN \E n \in 1..Len(q) :
            /\ q[n] = stack'[Len(stack')].e
            /\ stack'[Len(stack')].ret = "drain"
            /\ queueEffectSchedulers' = SubSeq(q, n + 1, Len(q))
            /\ \A i \in 1..(n - 1) : dirtyLevel[q[i]] < Dirty
     ELSE queueEffectSchedulers' = <<>>

C15_BufferedSchedulersInOrder ==
  /\ [][pauseScheduleStack' > 0
          => IsPrefix(queueEffectSchedulers, queueEffectSchedulers')]_vars
  /\ [][(LoopStep /\ pauseScheduleStack' = 0) => FifoStep]_vars
  /\ [](Quiescent => queueEffectSchedulers = <<>>)

\* after a batch that changed both keys, fn of e1 has re-run and fn of e2,
\* enqueued second, is running
C15_Witness ==
  /\ stack # <<>>
  /\ Top.ret = "drain"
  /\ Top.e = "e2"
  /\ Len(stack) = 1
  /\ runsSince["e1"] = 1
  /\ runsSince["e2"] = 1
  /\ pauseScheduleStack = 0
  /\ queueEffectSchedulers = <<>>

(***************************************************************************)
(* C16: in every operation that removes subscribers (the post-cleanup of   *)
(* run(), stop(), and trackEffect replacing a dep in deps), the cleanup    *)
(* callback of a dep is called exactly once if the operation removes the   *)
(* last subscriber of the dep (its size goes from non-zero to zero), and   *)
(* is not called if the dep keeps a subscriber or had none.                *)
(***************************************************************************)
OncePerEmptying(h) ==
  /\ h.subs = depSubs'
  /\ \A d \in DepIds :
       h.calls[d] = IF depSubs[d] # <<>> /\ depSubs'[d] = <<>> THEN 1 ELSE 0

C16_CleanupOncePerEmptying ==
  [][/\ (FnReturn /\ Top.act)
          => OncePerEmptying(postCleanupEffect(Heap, deps[Top.e], depsLength[Top.e],
                                               Top.e, trackId[Top.e]))
     /\ \A e \in Effects :
          (Stop(e) /\ active[e])
            => OncePerEmptying(postCleanupEffect(Heap, deps[e], 0, e, trackId[e] + 1))
     /\ \A k \in Keys :
          (ProxyGet(k) /\ Tracking)
            => OncePerEmptying(trackEffect(WithDep(Heap, k), activeEffect,
                                           DepFor(Heap, k)).h)]_vars

\* e1 has read key a in a run and not in its latest one: the dep of a has
\* lost its last subscriber and is out of depsMap; the dep of b, which e1
\* has left too, keeps e2
C16_Witness ==
  /\ stack = <<>>
  /\ "a" \in everRead["e1"]
  /\ "b" \in everRead["e1"]
  /\ depsMap["a"] = NoDep
  /\ deps["e1"] = <<>>
  /\ trackId["e1"] >= 2
  /\ depsMap["b"] # NoDep
  /\ Live(depSubs[depsMap["b"]], "e2", trackId["e2"])

(***************************************************************************)
(* C18: when a run of an active effect ends, each key that the effect has  *)
(* read during the run, however many times, has a dep that occurs exactly  *)
(* once in effect.deps and that holds exactly one entry for the effect,    *)
(* the entry of this run.                                                  *)
(***************************************************************************)
RunEnds(e) ==
  /\ FnReturn
  /\ Top.e = e
  /\ Top.act

OneEdge(e, k) ==
  /\ depsMap'[k] # NoDep
  /\ Count(deps'[e], depsMap'[k]) = 1
  /\ Count(DepKeysOf(depSubs'[depsMap'[k]]), e) = 1
  /\ Live(depSubs'[depsMap'[k]], e, trackId'[e])

C18_OneEdgePerKey ==
  [][\A e \in Effects :
       RunEnds(e) => \A k \in epochReads[e] : OneEdge(e, k)]_vars

\* a run of e1 that read both keys has ended; e2 reads key a too
C18_Witness ==
  /\ stack = <<>>
  /\ epochReads["e1"] = {"a", "b"}
  /\ Len(deps["e1"]) = 2
  /\ trackId["e1"] >= 2
  /\ "a" \in epochReads["e2"]
  /\ runnings["e1"] = 0

C17_SetLengthReruns == lastSet.missed = {}

C17_SetOtherLengthReruns == ~lastSet.same => lastSet.missed = {}

\* the length has been set from 1 to 2: fn of e1, which read the length,
\* is running again; e2, which read index 1 only, is not scheduled
C17_Witness ==
  /\ arrLength = 2
  /\ ~lastSet.same
  /\ Len(stack) = 1
  /\ Top.e = "e1"
  /\ Top.ret = "drain"
  /\ epochReads["e2"] = {"1"}
  /\ runnings["e2"] = 0
  /\ dirtyLevel["e2"] = NotDirty
  /\ queueEffectSchedulers = <<>>

(***************************************************************************)
(* C21.  As claimed: the scheduler of an effect without allowRecurse       *)
(* enters fn only for a change, made while the effect was not running, of  *)
(* a key that the effect had read in its latest run: what the effect       *)
(* writes during its own run does not make it run again.                   *)
(***************************************************************************)
\* the scheduler of e has called run(), which has entered fn
SchedulerRuns(e) == Entered(e) /\ stack'[Len(stack')].ret = "drain"

C21_NoRerunForOwnWrite ==
  [][\A e \in Effects :
       (SchedulerRuns(e) /\ ~allowRecurse[e]) => runsSince'[e] >= 1]_vars

\* the schedulers that a write of key k pushes
Pushed(k) ==
  LET st == TriggerLoop(EffState,
                        TriggerDeps(IF obj[k] = Undefined THEN "add" ELSE "set", k), 1)
  IN {st.q[i] : i \in (Len(queueEffectSchedulers) + 1)..Len(st.q)}

(***************************************************************************)
(* C21, amended.  A write never pushes the scheduler of an effect that is  *)
(* running, unless the effect has allowRecurse; and the scheduler of an    *)
(* effect without allowRecurse enters fn only for a change made while the  *)
(* effect was not running, or when the scheduler was in the buffer already *)
(* when the latest run of the effect began.                                *)
(***************************************************************************)
C21_RunningNotPushed ==
  /\ [][\A k \in Keys, e \in Effects :
          (ProxySet(k, FALSE) /\ e \in Pushed(k))
            => (runnings[e] = 0 \/ allowRecurse[e])]_vars
  /\ [][\A e \in Effects :
          (SchedulerRuns(e) /\ ~allowRecurse[e])
            => (runsSince'[e] >= 1 \/ staleSched[e])]_vars

\* e1, which has no allowRecurse, has read a and written a in its first
\* run, which has returned; no other effect has run
C21_Witness ==
  /\ stack = <<>>
  /\ ~allowRecurse["e1"]
  /\ trackId["e1"] = 1 /\ trackId["e2"] = 0
  /\ epochReads["e1"] = {"a"}
  /\ dirtyLevel["e1"] = Dirty
  /\ shouldSchedule["e1"]
  /\ queueEffectSchedulers = <<>>

(***************************************************************************)
(* C22.  Whenever activePostFlushCbs is non-null it is sorted by ascending *)
(* id and holds no callback twice (as stated: also after a nested          *)
(* flushPostFlushCbs call).                                                *)
(***************************************************************************)
SortedCbs(cbs) == \A p, q \in 1..Len(cbs) : p < q => getId(cbs[p]) <= getId(cbs[q])

NoDupCbs(cbs) == \A p, q \in 1..Len(cbs) : p < q => cbs[p] # cbs[q]

C22_ActiveSortedDeduped ==
  ~activePostFlushCbs.isNull =>
    SortedCbs(activePostFlushCbs.cbs) /\ NoDupCbs(activePostFlushCbs.cbs)

\* the i-th batch of the array
Batch(i) ==
  SubSeq(activePostFlushCbs.cbs, IF i = 1 THEN 1 ELSE batches[i - 1] + 1, batches[i])

(***************************************************************************)
(* C22, amended.  activePostFlushCbs, when non-null, is the array that     *)
(* flushPostFlushCbs made, sorted by ascending id and without duplicates,  *)
(* followed by one batch for each nested flushPostFlushCbs call that found *)
(* callbacks pending, each batch sorted by ascending id and without        *)
(* duplicates; no callback occurs twice behind the callback that is        *)
(* running.                                                                *)
(***************************************************************************)
C22_ActiveSortedBatches ==
  ~activePostFlushCbs.isNull =>
    /\ batches # <<>>
    /\ batches[Len(batches)] = Len(activePostFlushCbs.cbs)
    /\ \A i \in 1..Len(batches) : SortedCbs(Batch(i)) /\ NoDupCbs(Batch(i))
    /\ NoDupCbs(SubSeq(activePostFlushCbs.cbs, postFlushIndex + 2,
                       Len(activePostFlushCbs.cbs)))

\* the array <<j1, j2>> made by flushPostFlushCbs, then j1 pushed again by a
\* nested call, and j2 running
C22_Witness ==
  /\ activePostFlushCbs = [isNull |-> FALSE, cbs |-> <<"j1", "j2", "j1">>]
  /\ batches = <<2, 3>>
  /\ postFlushIndex = 1
  /\ InPostCb

(***************************************************************************)
(* C23.  No operation made through a readonly wrapper calls track(): an    *)
(* effect whose fn accesses only readonly wrappers is subscribed to no dep *)
(* when its run ends (nor at any other time).                              *)
(***************************************************************************)
C23_ReadonlyNeverTracks ==
  /\ \A e \in Effects : deps[e] = <<>>
  /\ \A d \in DepIds : depSubs[d] = <<>>

(***************************************************************************)
(* C24.  As claimed: when flushPreFlushCbs(), called without arguments,    *)
(* returns, the queue holds no pre job at or after the index where the     *)
(* loop started, and the jobs that are not pre are in the queue as they    *)
(* were.                                                                   *)
(***************************************************************************)
\* the call of flushPreFlushCbs() returns to its caller
PreLoopReturns ==
  \/ FlushPreFlushCbs /\ jobStack' = jobStack
  \/ PreReturn /\ jobStack' = Pop(jobStack)

\* the pre jobs in the queue at or after the start index
PreLeft(q) == {q[p] : p \in {x \in (PreStart + 1)..Len(q) : JobPre(q[x])}}

NonPre(q) == SelectSeq(q, LAMBDA j : ~JobPre(j))

C24_NoPreJobLeft ==
  [][PreLoopReturns => PreLeft(queue') = {}]_vars

(***************************************************************************)
(* C24, amended.  When flushPreFlushCbs() returns, the only pre jobs in    *)
(* the queue at or after the start index are jobs that queueJob has put,   *)
(* during the call, in front of the index that the loop was to look at     *)
(* next; the loop calls pre jobs only, and a step of the loop leaves the   *)
(* jobs that are not pre in the queue, in their order.                     *)
(***************************************************************************)
C24_PreJobsLeftWereBypassed ==
  /\ [][PreLoopReturns => PreLeft(queue') \subseteq bypassed]_vars
  /\ [][(FlushPreFlushCbs \/ PreReturn) => NonPre(queue') = NonPre(queue)]_vars
  /\ [](InPreCb => JobPre(jobStack[Len(jobStack)].job))

\* the script's flushPreFlushCbs() has called jnp and then j2p, which jnp
\* had queued behind the job j2; j2 is in the queue and was not called
C24_Witness ==
  /\ Len(jobStack) = 1
  /\ jobStack[1] = [job |-> "j2p", kind |-> "pre"]
  /\ preSeen["jnp"] = 1 /\ preSeen["j2p"] = 1
  /\ queue = <<"j2">>
  /\ bypassed = {}
  /\ ~isFlushing

(***************************************************************************)
(* C25.  For every kind of target, trigger type and key, the deps that     *)
(* trigger fires are the existing deps among: all deps of the target for   *)
(* CLEAR; for SET of the key "length" of an array, the dep of "length" and *)
(* the deps of the integer keys >= the new length; else the dep of the     *)
(* key, and with it the dep of ITERATE_KEY for ADD and DELETE on a target  *)
(* that is not an array (and that of MAP_KEY_ITERATE_KEY on a Map), the    *)
(* dep of "length" for ADD of an integer key on an array, and the dep of   *)
(* ITERATE_KEY for SET on a Map.                                           *)
(***************************************************************************)
TableKeys(c) ==
  IF c.type = "clear" THEN KindKeys(c.kind)
  ELSE IF c.kind = "array" /\ c.key = "length"
  THEN {"length"} \cup (IF 1 >= c.newValue THEN {"1"} ELSE {})
  ELSE {c.key}
       \cup (IF c.type \in {"add", "delete"} /\ c.kind # "array"
             THEN {ITERATE_KEY} ELSE {})
       \cup (IF c.type \in {"add", "delete"} /\ c.kind = "map"
             THEN {MAP_KEY_ITERATE_KEY} ELSE {})
       \cup (IF c.type = "add" /\ c.kind = "array" /\ c.key = "1"
             THEN {"length"} ELSE {})
       \cup (IF c.type = "set" /\ c.kind = "map" THEN {ITERATE_KEY} ELSE {})

C25_TriggerFiresTable ==
  tout.type # "none" => tout.fired = TableKeys(tout) \cap tout.keys

\* a key was added to a Map that has all its deps: three deps are fired
C25_Witness ==
  /\ tout.kind = "map"
  /\ tout.type = "add"
  /\ tout.key = "a"
  /\ tout.keys = {"a", "b", ITERATE_KEY, MAP_KEY_ITERATE_KEY}
  /\ tout.fired = {"a", ITERATE_KEY, MAP_KEY_ITERATE_KEY}


(***************************************************************************)
(* C26: a write through the mutable wrapper, to a key the target holds, of *)
(* the value the key holds calls no trigger: no effect's dirty level or    *)
(* _shouldSchedule changes, no scheduler is queued and no effect runs.  A  *)
(* write to a key the target does not hold fires ADD: of the effects that  *)
(* are not dirty, exactly the subscribers of the key and of ITERATE_KEY    *)
(* become dirty or run.  A write of another value to a key the target      *)
(* holds fires SET: exactly the subscribers of the key do.                 *)
(***************************************************************************)
Reached(e) == dirtyLevel'[e] = Dirty \/ Entered(e)

C26_SetTrapTriggers ==
  [][wrote' # wrote =>
       LET k == wrote'.key
           hadKey == obj[k] # Undefined
       IN /\ (hadKey /\ wrote'.same) =>
               UNCHANGED <<dirtyLevel, shouldSchedule, queueEffectSchedulers, stack>>
          /\ ~hadKey =>
               \A e \in Effects :
                 Idle(e) => (Reached(e) <=>
                               (Subscribed(e, k) \/ Subscribed(e, ITERATE_KEY)))
          /\ (hadKey /\ ~wrote'.same) =>
               \A e \in Effects : Idle(e) => (Reached(e) <=> Subscribed(e, k))]_vars

\* the script has just written, to a key the target holds, the value the key
\* holds, while an effect that is not dirty subscribes to the key and
\* another one to ITERATE_KEY
C26_Witness ==
  /\ wrote.n = 1
  /\ wrote.same
  /\ obj[wrote.key] # Undefined
  /\ \E e \in Effects : Idle(e) /\ Subscribed(e, wrote.key)
  /\ \E e \in Effects : Idle(e) /\ Subscribed(e, ITERATE_KEY) /\ ~Subscribed(e, wrote.key)


(***************************************************************************)
(* C27: no job is pending twice: each job occurs at most once among the    *)
(* entries of the queue that the main loop has not started, also a job     *)
(* with allowRecurse that post-flush callbacks have queued.                *)
(***************************************************************************)
PendingTimes(job) ==
  Cardinality({p \in (IF InMainLoop THEN flushIndex + 2 ELSE 1)..Len(queue) :
                 queue[p] = job})

C27_NoJobPendingTwice == \A job \in Jobs : PendingTimes(job) <= 1


====
